---- MODULE Spec2Model ----
(***************************************************************************)
(* A model of scripts/print_minio_pools.py: one run of the report over one *)
(* diagnostic document.  The script is sequential; every action below is a *)
(* consecutive block of it, and pc names the block that runs next.         *)
(*                                                                         *)
(* Python dicts are records whose DOMAIN is the set of keys present, so    *)
(* d.get(k, default) is Get(d, k, default).  Strings the script parses     *)
(* (the EC:<n> storage class, the --low-space value) are sequences of      *)
(* one-character strings.  Space figures the script only adds up and       *)
(* scales are exact rationals <<num, den>>; the percentages it compares    *)
(* with the --low-space threshold are IEEE binary64 values, computed with  *)
(* the rounding of Python's float.                                         *)
(***************************************************************************)
EXTENDS Integers, Sequences, FiniteSets, TLC

\* ------------------------------------------------------------------------
\* Bounds of the model
\* ------------------------------------------------------------------------
MaxDrives == 3
MaxSetSize == 4
MaxIndex == 1

\* ------------------------------------------------------------------------
\* Generic helpers
\* ------------------------------------------------------------------------
Get(d, k, default) == IF k \in DOMAIN d THEN d[k] ELSE default

Range(s) == {s[i] : i \in 1..Len(s)}

RECURSIVE SumSeq(_)
SumSeq(s) == IF s = <<>> THEN 0 ELSE s[1] + SumSeq(Tail(s))

RECURSIVE Gcd(_, _)
Gcd(a, b) == IF b = 0 THEN a ELSE Gcd(b, a % b)

\* ------------------------------------------------------------------------
\* Python float (IEEE 754 binary64, round to nearest, ties to even)
\*
\* A natural number of any size is a sequence of limbs, least significant
\* first, without high zero limbs.  A non-negative float is [m, e], the
\* value m * 2^e with a 53-bit m, or FZero.
\* ------------------------------------------------------------------------
Base == 2^15
MantBits == 53

RECURSIVE BNNorm(_)
BNNorm(x) ==
    IF x = <<>> THEN x
    ELSE IF x[Len(x)] = 0 THEN BNNorm(SubSeq(x, 1, Len(x) - 1)) ELSE x

RECURSIVE BNFromInt(_)
BNFromInt(n) == IF n = 0 THEN <<>> ELSE <<n % Base>> \o BNFromInt(n \div Base)

\* x * m + c, for 1 <= m < Base
RECURSIVE BNMulAdd(_, _, _)
BNMulAdd(x, m, c) ==
    IF x = <<>> THEN BNFromInt(c)
    ELSE LET t == x[1] * m + c
         IN  <<t % Base>> \o BNMulAdd(Tail(x), m, t \div Base)

RECURSIVE BNCmpAt(_, _, _)
BNCmpAt(x, y, i) ==
    IF i = 0 THEN 0
    ELSE IF x[i] > y[i] THEN 1
    ELSE IF x[i] < y[i] THEN -1
    ELSE BNCmpAt(x, y, i - 1)

BNCmp(x, y) ==
    IF Len(x) > Len(y) THEN 1
    ELSE IF Len(x) < Len(y) THEN -1
    ELSE BNCmpAt(x, y, Len(x))

RECURSIVE BNSubB(_, _, _)
BNSubB(x, y, b) ==
    IF x = <<>> THEN <<>>
    ELSE LET t == x[1] - (IF y = <<>> THEN 0 ELSE y[1]) - b
         IN  <<IF t < 0 THEN t + Base ELSE t>>
             \o BNSubB(Tail(x), IF y = <<>> THEN y ELSE Tail(y), IF t < 0 THEN 1 ELSE 0)

\* x - y, for x >= y
BNSub(x, y) == BNNorm(BNSubB(x, y, 0))

RECURSIVE BitLen(_)
BitLen(n) == IF n = 0 THEN 0 ELSE 1 + BitLen(n \div 2)

BNBitLen(x) == IF x = <<>> THEN 0 ELSE 15 * (Len(x) - 1) + BitLen(x[Len(x)])

BNBit(x, i) ==
    IF i \div 15 + 1 > Len(x) THEN 0 ELSE (x[i \div 15 + 1] \div 2^(i % 15)) % 2

RECURSIVE BNShl(_, _)
BNShl(x, k) ==
    IF k = 0 THEN x
    ELSE IF k >= 14 THEN BNShl(BNMulAdd(x, 2^14, 0), k - 14)
    ELSE BNMulAdd(x, 2^k, 0)

\* One step of binary long division: the doubled remainder r2 against Q
DivPut(quo, r2, Q) ==
    IF BNCmp(r2, Q) >= 0
    THEN <<BNMulAdd(quo, 2, 1), BNSub(r2, Q)>>
    ELSE <<BNMulAdd(quo, 2, 0), r2>>

\* Bit i of P enters <<quotient, remainder>>
DivStep(P, Q, i, st) == DivPut(st[1], BNMulAdd(st[2], 2, BNBit(P, i)), Q)

\* The steps for bits hi down to lo, in that order
RECURSIVE DivFold(_, _, _, _, _)
DivFold(P, Q, hi, lo, st) ==
    IF hi < lo THEN st
    ELSE IF hi = lo THEN DivStep(P, Q, hi, st)
    ELSE LET mid == (hi + lo + 1) \div 2
             up  == DivFold(P, Q, hi, mid, st)
         IN  IF Len(up) = 2 THEN DivFold(P, Q, mid - 1, lo, up) ELSE up

\* <<quotient, remainder>> of P by Q > 0
BNDiv(P, Q) == DivFold(P, Q, BNBitLen(P) - 1, 0, <<<<>>, <<>>>>)

FZero == [m |-> <<>>, e |-> 0]

\* m * 2^e with m of at most MantBits + 1 bits, brought back to MantBits bits
\* (the bit dropped is 0: m is then a power of two)
Normal(m, e) ==
    IF BNBitLen(m) > MantBits
    THEN [m |-> BNDiv(m, <<2>>)[1], e |-> e + 1]
    ELSE [m |-> m, e |-> e]

Bump(m, up) == IF up THEN BNMulAdd(m, 1, 1) ELSE m

\* Round to nearest, ties to even, of the quotient quo (MantBits or
\* MantBits + 1 bits) and remainder rem of a division by Q, scaled by 2^e
RoundQuot(quo, rem, Q, e) ==
    IF BNBitLen(quo) > MantBits
    THEN Normal(Bump(BNDiv(quo, <<2>>)[1],
                     BNBit(quo, 0) = 1 /\ (rem # <<>> \/ BNBit(quo, 1) = 1)),
                e + 1)
    ELSE Normal(Bump(quo, \/ BNCmp(BNMulAdd(rem, 2, 0), Q) > 0
                          \/ BNCmp(BNMulAdd(rem, 2, 0), Q) = 0 /\ BNBit(quo, 0) = 1),
                e)

RoundDiv(qr, Q, e) == RoundQuot(qr[1], qr[2], Q, e)

RoundScaled(P, Q, e) == RoundDiv(BNDiv(P, Q), Q, e)

\* P / Q with P * 2^k / Q of MantBits or MantBits + 1 bits
RoundShift(P, Q, k) ==
    IF k >= 0 THEN RoundScaled(BNShl(P, k), Q, -k)
    ELSE RoundScaled(P, BNShl(Q, -k), -k)

\* The float nearest to P / Q (P, Q natural numbers, Q > 0)
RoundRat(P, Q) ==
    IF P = <<>> THEN FZero
    ELSE RoundShift(P, Q, MantBits - (BNBitLen(P) - BNBitLen(Q)))

\* int / int and float(int)
FFromRat(p, q) == RoundRat(BNFromInt(p), BNFromInt(q))

\* z * 2^d
Scaled(z, d) == IF z = FZero THEN FZero ELSE [m |-> z.m, e |-> z.e + d]

\* float / float, for y > 0
FDiv(x, y) == Scaled(RoundRat(x.m, y.m), x.e - y.e)

\* float * c, for an integer 1 <= c < Base
FMulInt(x, c) == Scaled(RoundRat(BNMulAdd(x.m, c, 0), <<1>>), x.e)

\* x < y
FLess(x, y) ==
    IF y = FZero THEN FALSE
    ELSE IF x = FZero THEN TRUE
    ELSE IF x.e # y.e THEN x.e < y.e
    ELSE BNCmp(x.m, y.m) < 0

\* The sign of x - p / q for integers p >= 0 and 1 <= q < Base: -1, 0 or 1
FCmpScaled(xm, e, P) ==
    IF e >= 0 THEN BNCmp(BNShl(xm, e), P) ELSE BNCmp(xm, BNShl(P, -e))

FCmpRat(x, p, q) ==
    FCmpScaled(IF x = FZero THEN <<>> ELSE BNMulAdd(x.m, q, 0), x.e, BNFromInt(p))

\* ------------------------------------------------------------------------
\* Exact rationals <<num, den>>, den > 0, in lowest terms
\* (the script holds these figures as floats: a printed figure can differ
\* from the exact one in its last digit, a comparison of two of them cannot
\* for the sizes modelled)
\* ------------------------------------------------------------------------
Rat(n, d) == LET g == Gcd(n, d) IN <<n \div g, d \div g>>

RatAdd(x, y) == Rat(x[1] * y[2] + y[1] * x[2], x[2] * y[2])

RatMulInt(x, n) == Rat(x[1] * n, x[2])

RatLeq(x, y) == x[1] * y[2] <= y[1] * x[2]

\* ------------------------------------------------------------------------
\* Strings the script parses, as sequences of characters
\* ------------------------------------------------------------------------
Digits == {"0", "1", "2", "3", "4", "5", "6", "7", "8", "9"}

DigitVal(c) ==
    CASE c = "0" -> 0 [] c = "1" -> 1 [] c = "2" -> 2 [] c = "3" -> 3
      [] c = "4" -> 4 [] c = "5" -> 5 [] c = "6" -> 6 [] c = "7" -> 7
      [] c = "8" -> 8 [] c = "9" -> 9

IsDigits(s) == s # <<>> /\ \A i \in 1..Len(s) : s[i] \in Digits

RECURSIVE DigitsValue(_)
DigitsValue(s) ==
    IF s = <<>> THEN 0
    ELSE DigitsValue(SubSeq(s, 1, Len(s) - 1)) * 10 + DigitVal(s[Len(s)])

RECURSIVE Pow10(_)
Pow10(n) == IF n = 0 THEN 1 ELSE 10 * Pow10(n - 1)

\* The first index of character c in s, 0 when there is none
IndexOf(s, c) ==
    IF \E i \in 1..Len(s) : s[i] = c
    THEN CHOOSE i \in 1..Len(s) : s[i] = c /\ \A j \in 1..(i - 1) : s[j] # c
    ELSE 0

\* str.split(sep) for a one-character separator
RECURSIVE Split(_, _)
Split(s, sep) ==
    LET i == IndexOf(s, sep)
    IN  IF i = 0 THEN <<s>>
        ELSE <<SubSeq(s, 1, i - 1)>> \o Split(SubSeq(s, i + 1, Len(s)), sep)

\* str.startswith(prefix)
StartsWith(s, prefix) ==
    Len(s) >= Len(prefix) /\ SubSeq(s, 1, Len(prefix)) = prefix

\* int(s): an optional sign and decimal digits, ValueError (ok = FALSE) otherwise
PyInt(s) ==
    LET signed == s # <<>> /\ s[1] \in {"-", "+"}
        body   == IF signed THEN Tail(s) ELSE s
    IN  IF IsDigits(body)
        THEN [ok |-> TRUE,
              v  |-> IF signed /\ s[1] = "-" THEN -DigitsValue(body)
                     ELSE DigitsValue(body)]
        ELSE [ok |-> FALSE, v |-> 0]

\* float(s): an optional sign, decimal digits and at most one point, rounded
\* to the nearest float; ValueError (ok = FALSE) otherwise
PyFloat(s) ==
    LET signed == s # <<>> /\ s[1] \in {"-", "+"}
        body   == IF signed THEN Tail(s) ELSE s
        parts  == Split(body, ".")
        whole  == parts[1]
        frac   == IF Len(parts) = 2 THEN parts[2] ELSE <<>>
        wellformed ==
            /\ Len(parts) <= 2
            /\ \A i \in 1..Len(body) : body[i] \in Digits \cup {"."}
            /\ whole \o frac # <<>>
    IN  IF wellformed
        THEN [ok  |-> TRUE,
              neg |-> signed /\ s[1] = "-",
              f   |-> FFromRat(DigitsValue(whole \o frac), Pow10(Len(frac)))]
        ELSE [ok |-> FALSE, neg |-> FALSE, f |-> FZero]

\* str(n) of an index, and int(s) of such a string
Str(n) == ToString(n)

\* ------------------------------------------------------------------------
\* The state of one run
\* ------------------------------------------------------------------------
VARIABLES
    argv,               \* sys.argv[1:], each [opt, val]: val is the text after "="
    file,               \* <<>> when the named file does not exist, else <<content>>
    pc,                 \* the block of the script that runs next
    exit_code,          \* the exit status, once pc = "done"
    exc,                \* the uncaught exception that ended the run, or "none"
    out,                \* the lines printed so far
    file_opened,        \* open(json_file) has been reached
    summary_mode, scanning_mode, failed_mode,
    low_space_threshold,\* None, or Some of the parsed value
    data, servers, info_path, pools, parity_disks,
    cur,                \* drives the inventory loop has visited
    total_disks, scanning_disks, ok_disks, bad_disks, total_space, used_space,
    pool_set_drives,
    pool_pos            \* pools the final loop has visited

inputs == <<argv, file>>
modes == <<summary_mode, scanning_mode, failed_mode, low_space_threshold>>
document == <<data, servers, info_path, pools, parity_disks>>
tallies == <<total_disks, scanning_disks, ok_disks, bad_disks, total_space, used_space>>
inventory == <<cur, tallies, pool_set_drives>>

vars == <<inputs, pc, exit_code, exc, out, file_opened, modes, document,
          inventory, pool_pos>>

None == <<>>
Some(x) == <<x>>

\* sys.exit(code)
Exit(code) == pc' = "done" /\ exit_code' = code /\ exc' = exc

\* An exception nothing catches: the traceback goes to stderr, the status is 1
Raise(e) == pc' = "done" /\ exit_code' = 1 /\ exc' = e

Goto(label) == pc' = label /\ UNCHANGED <<exit_code, exc>>

\* pager.print / print of one line
Printed(lines) == out' = out \o lines

\* ------------------------------------------------------------------------
\* Command line (lines 92-129)
\* ------------------------------------------------------------------------
HasFlag(args, flag) == \E i \in 1..Len(args) : args[i].opt = flag /\ args[i].val = <<>>

\* The arguments that start with "--low-space=", in order
LowSpaceArgs(args) == SelectSeq(args, LAMBDA a : a.opt = "--low-space=")

\* arg.split('=')[1] of such an argument
LowSpaceText(a) == Split(a.val, "=")[1]

\* The parse with a value float() rejects skipped rather than fatal
ParseLowSpaceLenient(args) ==
    LET ls == SelectSeq(LowSpaceArgs(args), LAMBDA a : PyFloat(LowSpaceText(a)).ok)
    IN  IF ls = <<>> THEN [ok |-> TRUE, v |-> None]
        ELSE [ok |-> TRUE, v |-> Some([neg |-> PyFloat(LowSpaceText(ls[Len(ls)])).neg,
                                       f   |-> PyFloat(LowSpaceText(ls[Len(ls)])).f])]

ParseLowSpace(args) ==
    LET ls  == LowSpaceArgs(args)
        bad == \E i \in 1..Len(ls) : ~PyFloat(LowSpaceText(ls[i])).ok
    IN  IF bad THEN [ok |-> FALSE, v |-> None]
        ELSE IF ls = <<>> THEN [ok |-> TRUE, v |-> None]
        ELSE LET t == PyFloat(LowSpaceText(ls[Len(ls)]))
             IN  [ok |-> TRUE, v |-> Some([neg |-> t.neg, f |-> t.f])]

ParseArgs ==
    /\ pc = "args"
    /\ UNCHANGED <<inputs, file_opened, document, inventory, pool_pos>>
    /\ IF Len(argv) < 1
       THEN /\ Printed(<<[k |-> "usage"]>>)
            /\ Exit(1)
            /\ UNCHANGED modes
       ELSE LET parsed == ParseLowSpace(argv)
                summary == HasFlag(argv, "--summary")
            IN  /\ summary_mode' = summary
                /\ scanning_mode' = HasFlag(argv, "--scanning")
                /\ failed_mode' = HasFlag(argv, "--failed")
                /\ low_space_threshold' = parsed.v
                /\ IF ~parsed.ok
                   THEN Printed(<<[k |-> "error", what |-> "invalid --low-space value"]>>)
                        /\ Exit(1)
                   ELSE IF parsed.v # None /\ ~summary
                   THEN Printed(<<[k |-> "error", what |-> "--low-space requires --summary"]>>)
                        /\ Exit(1)
                   ELSE UNCHANGED out /\ Goto("load")

\* ------------------------------------------------------------------------
\* Loading the document (lines 131-180)
\*
\* A file's content is [whole, lines]: what json.load makes of the whole
\* text and what json.loads makes of each line, <<>> for a JSONDecodeError
\* and <<object>> otherwise.
\* ------------------------------------------------------------------------
FileName == "prod.json"

\* The file json_file names: only FileName exists
FileFor(arg) == IF arg.opt = FileName /\ arg.val = <<>> THEN file ELSE <<>>

IsCandidate(line) ==
    line # <<>> /\ ("minio" \in DOMAIN line[1] \/ "info" \in DOMAIN line[1])

\* The last line that parses and holds a minio or an info key, as <<object>>
LastCandidate(lines) ==
    LET hits == SelectSeq(lines, IsCandidate)
    IN  IF hits = <<>> THEN <<>> ELSE hits[Len(hits)]

\* The first line that parses and holds a minio or an info key, as <<object>>
FirstCandidate(lines) ==
    LET hits == SelectSeq(lines, IsCandidate)
    IN  IF hits = <<>> THEN <<>> ELSE hits[1]

LoadJSON ==
    /\ pc = "load"
    /\ file_opened' = TRUE
    /\ UNCHANGED <<inputs, modes, servers, info_path, pools, parity_disks,
                   inventory, pool_pos>>
    /\ LET f == FileFor(argv[1])
       IN  IF f = <<>>
           THEN /\ Printed(<<[k |-> "error", what |-> "file not found"]>>)
                /\ Exit(1)
                /\ UNCHANGED data
           ELSE LET content == f[1]
                    found   == FirstCandidate(content.lines)
                IN  IF content.whole # <<>>
                    THEN LET top == content.whole[1]
                         IN  /\ data' = IF "info" \notin DOMAIN top
                                           /\ "minio" \notin DOMAIN top
                                           /\ found # <<>>
                                        THEN found[1] ELSE top
                             /\ UNCHANGED out
                             /\ Goto("resolve")
                    ELSE IF found # <<>>
                    THEN data' = found[1] /\ UNCHANGED out /\ Goto("resolve")
                    ELSE /\ Printed(<<[k |-> "error", what |-> "not valid JSON"]>>)
                         /\ Exit(1)
                         /\ UNCHANGED data

\* ------------------------------------------------------------------------
\* The servers and the container (lines 182-194)
\* ------------------------------------------------------------------------
ResolveServers ==
    /\ pc = "resolve"
    /\ UNCHANGED <<inputs, file_opened, modes, data, pools, parity_disks,
                   inventory, pool_pos>>
    /\ IF "minio" \in DOMAIN data /\ "info" \in DOMAIN data.minio
       THEN IF "servers" \in DOMAIN data.minio.info
            THEN /\ servers' = data.minio.info.servers
                 /\ info_path' = data.minio.info
                 /\ UNCHANGED out
                 /\ Goto("pools")
            ELSE Raise("KeyError") /\ UNCHANGED <<servers, info_path, out>>
       ELSE IF "info" \in DOMAIN data
       THEN IF "servers" \in DOMAIN data.info
            THEN /\ servers' = data.info.servers
                 /\ info_path' = data.info
                 /\ UNCHANGED out
                 /\ Goto("pools")
            ELSE Raise("KeyError") /\ UNCHANGED <<servers, info_path, out>>
       ELSE /\ Printed(<<[k |-> "error", what |-> "could not find servers"],
                         [k |-> "available keys", keys |-> DOMAIN data]>>)
            /\ Exit(1)
            /\ UNCHANGED <<servers, info_path>>

\* ------------------------------------------------------------------------
\* The topology (lines 196-210): an ordered mapping, as a sequence of
\* [idx, sets] with idx a pool key and sets the pool's set keys in order
\* ------------------------------------------------------------------------
\* server.get('drives', []) of every server, in order, as one sequence
RECURSIVE AllDrives(_)
AllDrives(srvs) ==
    IF srvs = <<>> THEN <<>>
    ELSE Get(Head(srvs), "drives", <<>>) \o AllDrives(Tail(srvs))

PoolPos(ps, key) ==
    IF \E i \in 1..Len(ps) : ps[i].idx = key
    THEN CHOOSE i \in 1..Len(ps) : ps[i].idx = key
    ELSE 0

AddPoolSet(ps, pkey, skey) ==
    LET i  == PoolPos(ps, pkey)
        ps1 == IF i = 0 THEN Append(ps, [idx |-> pkey, sets |-> <<>>]) ELSE ps
        j  == PoolPos(ps1, pkey)
    IN  IF skey \in Range(ps1[j].sets) THEN ps1
        ELSE [ps1 EXCEPT ![j].sets = Append(@, skey)]

\* The synthesis that adds a set only when it adds the set's pool
RECURSIVE SynthesizeFirstSets(_, _)
SynthesizeFirstSets(drives, ps) ==
    IF drives = <<>> THEN ps
    ELSE LET drive == Head(drives)
             next  == IF PoolPos(ps, Str(Get(drive, "pool_index", 0))) = 0
                      THEN AddPoolSet(ps, Str(Get(drive, "pool_index", 0)),
                                          Str(Get(drive, "set_index", 0)))
                      ELSE ps
         IN  IF Len(next) >= 0 THEN SynthesizeFirstSets(Tail(drives), next) ELSE next

\* Build pools structure from drive information (lines 201-210)

RECURSIVE SynthesizePools(_, _)
SynthesizePools(drives, ps) ==
    IF drives = <<>> THEN ps
    ELSE LET drive == Head(drives)
             next  == AddPoolSet(ps, Str(Get(drive, "pool_index", 0)),
                                     Str(Get(drive, "set_index", 0)))
         IN  IF Len(next) >= 0 THEN SynthesizePools(Tail(drives), next) ELSE next

BuildPools ==
    /\ pc = "pools"
    /\ pools' = IF "pools" \in DOMAIN info_path THEN info_path.pools
                ELSE SynthesizePools(AllDrives(servers), <<>>)
    /\ Goto("parity")
    /\ UNCHANGED <<inputs, out, file_opened, modes, data, servers, info_path,
                   parity_disks, inventory, pool_pos>>

\* ------------------------------------------------------------------------
\* Parity inference (lines 212-230)
\* ------------------------------------------------------------------------
DefaultParity == 2

\* The inference giving up at the first server that has a value, parsed or not
RECURSIVE ParityOfFirstValue(_)
ParityOfFirstValue(srvs) ==
    IF srvs = <<>> THEN DefaultParity
    ELSE LET server == Head(srvs)
             has == /\ "minio_env_vars" \in DOMAIN server
                    /\ "MINIO_STORAGE_CLASS_STANDARD" \in DOMAIN server.minio_env_vars
             ec_config == server.minio_env_vars.MINIO_STORAGE_CLASS_STANDARD
             parsed == PyInt(Split(ec_config, ":")[2])
         IN  IF has
             THEN IF StartsWith(ec_config, <<"E", "C", ":">>) /\ parsed.ok
                  THEN parsed.v ELSE DefaultParity
             ELSE ParityOfFirstValue(Tail(srvs))

\* get_erasure_coding_config (lines 213-225)
RECURSIVE get_erasure_coding_config(_)
get_erasure_coding_config(srvs) ==
    IF srvs = <<>> THEN DefaultParity
    ELSE LET server == Head(srvs)
             has == /\ "minio_env_vars" \in DOMAIN server
                    /\ "MINIO_STORAGE_CLASS_STANDARD" \in DOMAIN server.minio_env_vars
             ec_config == server.minio_env_vars.MINIO_STORAGE_CLASS_STANDARD
             parsed == PyInt(Split(ec_config, ":")[2])
         IN  IF has /\ StartsWith(ec_config, <<"E", "C", ":">>) /\ parsed.ok
             THEN parsed.v
             ELSE get_erasure_coding_config(Tail(srvs))

DetectParity ==
    /\ pc = "parity"
    /\ parity_disks' = get_erasure_coding_config(servers)
    /\ Printed(<<[k |-> "Detected Erasure Coding Configuration", v |-> parity_disks']>>)
    /\ Goto("inventory")
    /\ UNCHANGED <<inputs, file_opened, modes, data, servers, info_path, pools,
                   inventory, pool_pos>>

\* ------------------------------------------------------------------------
\* The inventory loop (lines 232-325), one drive a step
\* ------------------------------------------------------------------------
\* The default of disk_index, 'N/A': the one value of the column int() rejects
NA == -1

\* The record of one drive with a drive without state taken as ok
DiskInfoStateOk(drive) ==
    [state           |-> Get(drive, "state", "ok"),
     uuid            |-> Get(drive, "uuid", "N/A"),
     scanning        |-> Get(drive, "scanning", FALSE),
     disk_index      |-> Get(drive, "disk_index", NA),
     total_space     |-> Get(drive, "totalspace", 0),
     used_space      |-> Get(drive, "usedspace", 0),
     available_space |-> Get(drive, "availspace", 0),
     pool_index      |-> Get(drive, "pool_index", 0),
     set_index       |-> Get(drive, "set_index", 0)]

\* The record of one drive (lines 289-305); the fields the script only
\* prints (server, path, status, inodes, local, metrics, the two per-drive
\* percentages) are left out
DiskInfo(drive) ==
    [state           |-> Get(drive, "state", "unknown"),
     uuid            |-> Get(drive, "uuid", "N/A"),
     scanning        |-> Get(drive, "scanning", FALSE),
     disk_index      |-> Get(drive, "disk_index", NA),
     total_space     |-> Get(drive, "totalspace", 0),
     used_space      |-> Get(drive, "usedspace", 0),
     available_space |-> Get(drive, "availspace", 0),
     pool_index      |-> Get(drive, "pool_index", 0),
     set_index       |-> Get(drive, "set_index", 0)]

\* pool_set_drives[key].append(disk_info), creating the list when missing
Bucketed(psd, disk_info) ==
    LET key == <<disk_info.pool_index, disk_info.set_index>>
    IN  IF key \in DOMAIN psd
        THEN [psd EXCEPT ![key] = Append(@, disk_info)]
        ELSE psd @@ (key :> <<disk_info>>)

\* The view filters without the one on scanning
DisplayedWhateverScanning(drive) ==
    ~(failed_mode /\ Get(drive, "state", "unknown") = "ok")

\* Whether the view filters keep the drive (lines 262-268)
Displayed(drive) ==
    /\ ~(scanning_mode /\ ~Get(drive, "scanning", FALSE))
    /\ ~(failed_mode /\ Get(drive, "state", "unknown") = "ok")

\* The loop with the tallies moved below the view filters
InventoryDriveFiltered ==
    /\ pc = "inventory"
    /\ cur < Len(AllDrives(servers))
    /\ LET drive == AllDrives(servers)[cur + 1]
       IN  IF Displayed(drive)
           THEN /\ total_disks' = total_disks + 1
                /\ scanning_disks' = scanning_disks
                                     + (IF Get(drive, "scanning", FALSE) THEN 1 ELSE 0)
                /\ ok_disks' = ok_disks
                               + (IF Get(drive, "state", "offline") = "ok" THEN 1 ELSE 0)
                /\ bad_disks' = bad_disks
                                + (IF Get(drive, "state", "offline") = "ok" THEN 0 ELSE 1)
                /\ total_space' = total_space + Get(drive, "totalspace", 0)
                /\ used_space' = used_space + Get(drive, "usedspace", 0)
                /\ pool_set_drives' = Bucketed(pool_set_drives, DiskInfo(drive))
           ELSE UNCHANGED <<tallies, pool_set_drives>>
    /\ cur' = cur + 1
    /\ UNCHANGED <<inputs, pc, exit_code, exc, out, file_opened, modes, document,
                   pool_pos>>

InventoryDrive ==
    /\ pc = "inventory"
    /\ cur < Len(AllDrives(servers))
    /\ LET drive == AllDrives(servers)[cur + 1]
       IN  /\ total_disks' = total_disks + 1
           /\ scanning_disks' = scanning_disks
                                + (IF Get(drive, "scanning", FALSE) THEN 1 ELSE 0)
           /\ ok_disks' = ok_disks
                          + (IF Get(drive, "state", "offline") = "ok" THEN 1 ELSE 0)
           /\ bad_disks' = bad_disks
                           + (IF Get(drive, "state", "offline") = "ok" THEN 0 ELSE 1)
           /\ total_space' = total_space + Get(drive, "totalspace", 0)
           /\ used_space' = used_space + Get(drive, "usedspace", 0)
           /\ pool_set_drives' = IF Displayed(drive)
                                 THEN Bucketed(pool_set_drives, DiskInfo(drive))
                                 ELSE pool_set_drives
    /\ cur' = cur + 1
    /\ UNCHANGED <<inputs, pc, exit_code, exc, out, file_opened, modes, document,
                   pool_pos>>

\* The loop is over (line 325)
InventoryDone == pc = "inventory" /\ cur = Len(AllDrives(servers))

\* ------------------------------------------------------------------------
\* Capacity (lines 356-376 and 411-449)
\* ------------------------------------------------------------------------
\* int(key) of a pool or set key of the topology
KeyInt(key) == CHOOSE n \in 0..MaxIndex : Str(n) = key

\* pool_set_drives.get((int(pool_idx), int(set_idx)), [])
SetDrives(psd, pool_idx, set_idx) == Get(psd, <<KeyInt(pool_idx), KeyInt(set_idx)>>, <<>>)

\* usable_ratio without the branch for a set smaller than the parity
UsableRatioUnfloored(total_disks_in_set, parity) ==
    IF total_disks_in_set > 0
    THEN Rat(total_disks_in_set - parity, total_disks_in_set)
    ELSE <<0, 1>>

\* usable_ratio of a set of total_disks_in_set drives (lines 416-426)
UsableRatio(total_disks_in_set, parity) ==
    IF total_disks_in_set > 0
    THEN IF total_disks_in_set >= parity
         THEN Rat(total_disks_in_set - parity, total_disks_in_set)
         ELSE <<0, 1>>
    ELSE <<0, 1>>

\* The sum over the drives of total_space * usable_ratio (lines 372-373, 449)
RECURSIVE UsableSpace(_, _)
UsableSpace(drives, usable_ratio) ==
    IF drives = <<>> THEN <<0, 1>>
    ELSE RatAdd(RatMulInt(usable_ratio, Head(drives).total_space),
                UsableSpace(Tail(drives), usable_ratio))

RECURSIVE SumField(_, _)
SumField(drives, field) ==
    IF drives = <<>> THEN 0 ELSE Head(drives)[field] + SumField(Tail(drives), field)

\* The sets of one pool, then of all pools, in the order .items() yields them
RECURSIVE PoolUsable(_, _, _, _)
PoolUsable(psd, pool_idx, sets, parity) ==
    IF sets = <<>> THEN <<0, 1>>
    ELSE LET drives == SetDrives(psd, pool_idx, Head(sets))
         IN  RatAdd(UsableSpace(drives, UsableRatio(Len(drives), parity)),
                    PoolUsable(psd, pool_idx, Tail(sets), parity))

\* The drives held for a pool in its sets 0 and 1, listed in the topology or not
PoolDrivesOfAnySet(psd, pool_idx, sets) ==
    Get(psd, <<KeyInt(pool_idx), 0>>, <<>>) \o Get(psd, <<KeyInt(pool_idx), 1>>, <<>>)

\* The drives held for the sets of one pool, in topology order
RECURSIVE PoolDrives(_, _, _)
PoolDrives(psd, pool_idx, sets) ==
    IF sets = <<>> THEN <<>>
    ELSE SetDrives(psd, pool_idx, Head(sets)) \o PoolDrives(psd, pool_idx, Tail(sets))

\* The drives held for the sets of all pools, in topology order
RECURSIVE AllPoolDrives(_, _)
AllPoolDrives(psd, ps) ==
    IF ps = <<>> THEN <<>>
    ELSE PoolDrives(psd, Head(ps).idx, Head(ps).sets) \o AllPoolDrives(psd, Tail(ps))

\* The cluster figure as one ratio, that of all drives, applied to their total
TotalUsableOneRatio(psd, ps, parity) ==
    LET drives == AllPoolDrives(psd, ps)
    IN  RatMulInt(UsableRatio(Len(drives), parity), SumField(drives, "total_space"))

\* total_usable_space (lines 357-373)
RECURSIVE TotalUsable(_, _, _)
TotalUsable(psd, ps, parity) ==
    IF ps = <<>> THEN <<0, 1>>
    ELSE RatAdd(PoolUsable(psd, Head(ps).idx, Head(ps).sets, parity),
                TotalUsable(psd, Tail(ps), parity))

\* x / y * 100 when y > 0, else 0
Pct(x, y) == IF y[1] > 0 THEN Rat(x[1] * y[2] * 100, x[2] * y[1]) ELSE <<0, 1>>

RECURSIVE CountSets(_)
CountSets(ps) == IF ps = <<>> THEN 0 ELSE Len(Head(ps).sets) + CountSets(Tail(ps))

\* ------------------------------------------------------------------------
\* The cluster summary (lines 327-392)
\* ------------------------------------------------------------------------
CapacityLines ==
    LET total_usable_space == TotalUsable(pool_set_drives, pools, parity_disks)
    IN  <<[k |-> "Raw Capacity", v |-> total_space],
          [k |-> "Usable Capacity", v |-> total_usable_space],
          [k |-> "Used Space", v |-> used_space,
           pct |-> Pct(<<used_space, 1>>, total_usable_space)],
          [k |-> "Available Space",
           v |-> RatAdd(total_usable_space, <<-used_space, 1>>)]>>

ClusterSummary ==
    /\ InventoryDone
    /\ Printed(
         <<[k |-> "Deployment ID", v |-> Get(info_path, "deploymentID", "Not available")],
           [k |-> "Total Disks", v |-> total_disks],
           [k |-> "Scanning Disks", v |-> scanning_disks],
           [k |-> "Healthy Disks", v |-> ok_disks],
           [k |-> "Problem Disks", v |-> bad_disks]>>
         \o (IF total_disks > 0
             THEN <<[k |-> "Health", v |-> Rat(ok_disks * 100, total_disks)]>>
             ELSE <<>>)
         \o (IF total_space > 0 THEN CapacityLines ELSE <<>>)
         \o <<[k |-> "Pools", v |-> Len(pools)],
              [k |-> "Servers", v |-> Len(servers)],
              [k |-> "Erasure Sets", v |-> CountSets(pools)]>>)
    /\ Goto("pool summary")
    /\ UNCHANGED <<inputs, file_opened, modes, document, inventory, pool_pos>>

\* ------------------------------------------------------------------------
\* The pool summary (lines 394-476)
\* ------------------------------------------------------------------------
IsOk(d) == d.state = "ok"
NotOk(d) == d.state # "ok"
IsScanning(d) == d.scanning

Good(drives) == Len(SelectSeq(drives, IsOk))

Bad(drives) == Len(SelectSeq(drives, NotOk))

Scanning(drives) == Len(SelectSeq(drives, IsScanning))

PoolLines(pool) ==
    LET drives == PoolDrives(pool_set_drives, pool.idx, pool.sets)
        pool_usable_space == PoolUsable(pool_set_drives, pool.idx, pool.sets, parity_disks)
        pool_used_space == SumField(drives, "used_space")
    IN  <<[k |-> "Pool", idx |-> pool.idx],
          [k |-> "  Erasure Sets", v |-> Len(pool.sets)],
          [k |-> "  Disks", idx |-> pool.idx, total |-> Len(drives),
           ok |-> Good(drives), bad |-> Bad(drives),
           scanning |-> Scanning(drives)],
          [k |-> "  Health", v |-> Pct(<<Good(drives), 1>>, <<Len(drives), 1>>)],
          [k |-> "  Raw Capacity", v |-> SumField(drives, "total_space")],
          [k |-> "  Usable Capacity", idx |-> pool.idx, v |-> pool_usable_space],
          [k |-> "  Usage", v |-> pool_used_space,
           pct |-> Pct(<<pool_used_space, 1>>, pool_usable_space)],
          [k |-> "  Available", v |-> RatAdd(pool_usable_space, <<-pool_used_space, 1>>)]>>

RECURSIVE AllPoolLines(_)
AllPoolLines(ps) ==
    IF ps = <<>> THEN <<>> ELSE PoolLines(Head(ps)) \o AllPoolLines(Tail(ps))

PoolSummary ==
    /\ pc = "pool summary"
    /\ Printed(AllPoolLines(pools))
    /\ Goto("header")
    /\ UNCHANGED <<inputs, file_opened, modes, document, inventory, pool_pos>>

\* ------------------------------------------------------------------------
\* The title and the empty-result checks (lines 478-495)
\* ------------------------------------------------------------------------
Title ==
    IF scanning_mode THEN "MinIO Scanning Disks"
    ELSE IF failed_mode THEN "MinIO Failed/Faulty Disks"
    ELSE "MinIO Pool Information"

ReportHeader ==
    /\ pc = "header"
    /\ UNCHANGED <<inputs, file_opened, modes, document, inventory, pool_pos>>
    /\ IF scanning_mode /\ DOMAIN pool_set_drives = {}
       THEN /\ Printed(<<[k |-> "title", v |-> Title],
                         [k |-> "info", what |-> "No scanning disks found"]>>)
            /\ Exit(0)
       ELSE IF failed_mode /\ DOMAIN pool_set_drives = {}
       THEN /\ Printed(<<[k |-> "title", v |-> Title],
                         [k |-> "info", what |-> "No failed/faulty disks found"]>>)
            /\ Exit(0)
       ELSE /\ Printed(<<[k |-> "title", v |-> Title]>>)
            /\ Goto("report")

\* ------------------------------------------------------------------------
\* The low-space listing (lines 497-575)
\* ------------------------------------------------------------------------
\* (avg_part / avg_total_space) * 100 over total_drives drives, as the script
\* computes it in floats (lines 508-519)
PctOf(avg_part, avg_total_space) ==
    IF avg_total_space # FZero
    THEN FMulInt(FDiv(avg_part, avg_total_space), 100)
    ELSE FZero

\* The percentage with the total left as a sum rather than averaged
AvgPctOfSum(part_sum, total_sum, total_drives) ==
    PctOf(FFromRat(part_sum, total_drives), FFromRat(total_sum, 1))

AvgPct(part_sum, total_sum, total_drives) ==
    PctOf(FFromRat(part_sum, total_drives), FFromRat(total_sum, total_drives))

\* avg_free_space_pct < low_space_threshold (line 522)
BelowThreshold(avg_free_space_pct, threshold) ==
    ~threshold.neg /\ FLess(avg_free_space_pct, threshold.f)

LowSpaceEntry(pool_idx, set_idx, drives) ==
    [pool_idx |-> pool_idx,
     set_idx  |-> set_idx,
     avg_space_used_pct |-> AvgPct(SumField(drives, "used_space"),
                                   SumField(drives, "total_space"), Len(drives)),
     avg_free_space_pct |-> AvgPct(SumField(drives, "available_space"),
                                   SumField(drives, "total_space"), Len(drives)),
     good     |-> Good(drives),
     bad      |-> Bad(drives),
     scanning |-> Scanning(drives)]

\* The <<pool key, set key>> pairs of the topology, in iteration order
RECURSIVE TopologyKeys(_)
TopologyKeys(ps) ==
    IF ps = <<>> THEN <<>>
    ELSE [i \in 1..Len(Head(ps).sets) |-> <<Head(ps).idx, Head(ps).sets[i]>>]
         \o TopologyKeys(Tail(ps))

\* erasure_sets before the sort (lines 500-532)
RECURSIVE CollectLowSpace(_, _, _)
CollectLowSpace(keys, psd, threshold) ==
    IF keys = <<>> THEN <<>>
    ELSE LET drives == SetDrives(psd, Head(keys)[1], Head(keys)[2])
             es     == LowSpaceEntry(Head(keys)[1], Head(keys)[2], drives)
             rest   == CollectLowSpace(Tail(keys), psd, threshold)
         IN  IF drives = <<>> THEN rest
             ELSE IF BelowThreshold(es.avg_free_space_pct, threshold)
             THEN <<es>> \o rest
             ELSE rest

\* list.sort(key=avg_space_used_pct, reverse=True): stable, largest first
RECURSIVE SortByUsedDesc(_)
SortByUsedDesc(es) ==
    IF es = <<>> THEN <<>>
    ELSE LET rest == SortByUsedDesc(SubSeq(es, 1, Len(es) - 1))
             x    == es[Len(es)]
             p    == Cardinality({i \in 1..Len(rest) :
                        ~FLess(rest[i].avg_space_used_pct, x.avg_space_used_pct)})
         IN  SubSeq(rest, 1, p) \o <<x>> \o SubSeq(rest, p + 1, Len(rest))

LowSpaceSelected == summary_mode /\ low_space_threshold # None

LowSpaceReport ==
    /\ pc = "report"
    /\ LowSpaceSelected
    /\ LET erasure_sets ==
               SortByUsedDesc(CollectLowSpace(TopologyKeys(pools), pool_set_drives,
                                              low_space_threshold[1]))
       IN  IF erasure_sets = <<>>
           THEN Printed(<<[k |-> "info", what |-> "No erasure sets found below threshold"]>>)
           ELSE Printed(<<[k |-> "low-space header"]>>
                        \o [i \in 1..Len(erasure_sets) |->
                              [k |-> "low-space set"] @@ erasure_sets[i]])
    /\ Exit(0)
    /\ UNCHANGED <<inputs, file_opened, modes, document, inventory, pool_pos>>

\* ------------------------------------------------------------------------
\* Drive tables (lines 590-665 and 763-844)
\* ------------------------------------------------------------------------
\* One row: the Pool and Erasure Set columns are text, the Disk Index
\* column is the drive's disk_index as it is
Row(pool_text, set_text, drive) ==
    [pool |-> pool_text, set |-> set_text, disk_index |-> drive.disk_index,
     state |-> drive.state, scanning |-> drive.scanning, uuid |-> drive.uuid]

Rows(pool_text, set_text, drives) ==
    [i \in 1..Len(drives) |-> Row(pool_text, set_text, drives[i])]

\* int(x[2]) raises ValueError on 'N/A'
SortKeyFails(row) == row.disk_index = NA

SortKey(row) == <<KeyInt(row.pool), KeyInt(row.set), row.disk_index>>

TupleLess(a, b) ==
    \E i \in 1..Len(a) : a[i] < b[i] /\ \A j \in 1..(i - 1) : a[j] = b[j]

\* table_data.sort(key=...): stable, smallest first
RECURSIVE SortRows(_)
SortRows(rows) ==
    IF rows = <<>> THEN <<>>
    ELSE LET rest == SortRows(SubSeq(rows, 1, Len(rows) - 1))
             x    == rows[Len(rows)]
             p    == Cardinality({i \in 1..Len(rest) :
                        ~TupleLess(SortKey(x), SortKey(rest[i]))})
         IN  SubSeq(rest, 1, p) \o <<x>> \o SubSeq(rest, p + 1, Len(rest))

\* The try block that sorts and prints a table: the table line, or the
\* ValueError of a key the sort cannot compute (only ImportError is caught)
TableRaises(rows) == \E i \in 1..Len(rows) : SortKeyFails(rows[i])

TableLine(rows) == [k |-> "table", rows |-> SortRows(rows)]

\* ------------------------------------------------------------------------
\* The flat table of failed drives (lines 577-673)
\* ------------------------------------------------------------------------
RECURSIVE AllFailedDrives(_, _)
AllFailedDrives(keys, psd) ==
    IF keys = <<>> THEN <<>>
    ELSE SelectSeq(SetDrives(psd, Head(keys)[1], Head(keys)[2]), NotOk)
         \o AllFailedDrives(Tail(keys), psd)

FailedRows(drives) ==
    [i \in 1..Len(drives) |->
        Row(Str(drives[i].pool_index), Str(drives[i].set_index), drives[i])]

FailedTable ==
    /\ pc = "report"
    /\ ~LowSpaceSelected
    /\ failed_mode /\ ~summary_mode
    /\ UNCHANGED <<inputs, file_opened, modes, document, inventory, pool_pos>>
    /\ LET all_failed_drives == AllFailedDrives(TopologyKeys(pools), pool_set_drives)
           table_data == FailedRows(all_failed_drives)
       IN  IF all_failed_drives = <<>>
           THEN /\ Printed(<<[k |-> "info", what |-> "No failed/faulty disks found"]>>)
                /\ Exit(0)
           ELSE IF TableRaises(table_data)
           THEN UNCHANGED out /\ Raise("ValueError")
           ELSE Printed(<<TableLine(table_data)>>) /\ Exit(0)

\* ------------------------------------------------------------------------
\* The per-pool report (lines 675-851), one pool a step
\* ------------------------------------------------------------------------
SummaryLine(pool_idx, set_idx, drives) ==
    [k |-> "set summary", pool |-> pool_idx, set |-> set_idx,
     good |-> Good(drives), bad |-> Bad(drives),
     scanning |-> Scanning(drives), total_drives |-> Len(drives)]

\* The body of the loop over one pool's sets: the lines it prints and the
\* exception that ends it, if any
RECURSIVE SetLines(_, _, _)
SetLines(pool_idx, sets, printed) ==
    IF sets = <<>> THEN [lines |-> printed, exc |-> "none"]
    ELSE
    LET set_idx == Head(sets)
        all     == SetDrives(pool_set_drives, pool_idx, set_idx)
        failed_drives == SelectSeq(all, NotOk)
        drives  == IF failed_mode /\ summary_mode THEN failed_drives ELSE all
        skip    == \/ scanning_mode /\ all = <<>>
                   \/ failed_mode /\ summary_mode /\ failed_drives = <<>>
                   \/ ~summary_mode /\ drives = <<>>
        table_data == Rows(pool_idx, set_idx, drives)
    IN  IF skip THEN SetLines(pool_idx, Tail(sets), printed)
        ELSE IF summary_mode
        THEN SetLines(pool_idx, Tail(sets),
                      Append(printed, SummaryLine(pool_idx, set_idx, drives)))
        ELSE IF TableRaises(table_data)
        THEN [lines |-> Append(printed, [k |-> "set header", pool |-> pool_idx,
                                         set |-> set_idx]),
              exc |-> "ValueError"]
        ELSE SetLines(pool_idx, Tail(sets),
                      printed \o <<[k |-> "set header", pool |-> pool_idx,
                                    set |-> set_idx],
                                   TableLine(table_data)>>)

\* The check that finds a failed drive in every pool
PoolNeverSkipped(pool) == pool.idx = pool.idx

\* pool_has_failed (lines 677-685)
PoolHasFailed(pool) ==
    \E i \in 1..Len(pool.sets) :
        \E j \in 1..Len(SetDrives(pool_set_drives, pool.idx, pool.sets[i])) :
            NotOk(SetDrives(pool_set_drives, pool.idx, pool.sets[i])[j])

PoolLoopSelected ==
    pc = "report" /\ ~LowSpaceSelected /\ ~(failed_mode /\ ~summary_mode)

PoolIteration ==
    /\ PoolLoopSelected
    /\ pool_pos < Len(pools)
    /\ pool_pos' = pool_pos + 1
    /\ UNCHANGED <<inputs, file_opened, modes, document, inventory>>
    /\ LET pool == pools[pool_pos + 1]
           body == SetLines(pool.idx, pool.sets, <<[k |-> "pool header", idx |-> pool.idx]>>)
       IN  IF failed_mode /\ ~PoolHasFailed(pool)
           THEN UNCHANGED <<pc, exit_code, exc, out>>
           ELSE /\ Printed(body.lines)
                /\ IF body.exc = "none"
                   THEN UNCHANGED <<pc, exit_code, exc>>
                   ELSE Raise(body.exc)

\* The script ends after the last pool
EndOfScript ==
    /\ PoolLoopSelected
    /\ pool_pos = Len(pools)
    /\ Exit(0)
    /\ UNCHANGED <<inputs, out, file_opened, modes, document, inventory, pool_pos>>

\* ------------------------------------------------------------------------
\* The runs explored: command lines and documents
\* ------------------------------------------------------------------------
FileArg == [opt |-> FileName, val |-> <<>>]
Flag(name) == [opt |-> name, val |-> <<>>]
LowSpaceArg(text) == [opt |-> "--low-space=", val |-> text]

\* The flags a number 0..7 selects
FlagArgs(n) ==
    (IF n % 2 = 1 THEN <<Flag("--summary")>> ELSE <<>>)
    \o (IF (n \div 2) % 2 = 1 THEN <<Flag("--scanning")>> ELSE <<>>)
    \o (IF (n \div 4) % 2 = 1 THEN <<Flag("--failed")>> ELSE <<>>)

\* Values given to --low-space: numbers, and texts float() rejects
LowSpaceTexts ==
    <<<<"2", "9">>, <<"5", "0">>, <<"1", "2", ".", "5">>, <<"-", "1">>,
      <<"a", "b", "c">>, <<>>, <<"1", "0", "%">>>>

Drive(p, s, i, st, sc, t, u, a) ==
    [pool_index |-> p, set_index |-> s, disk_index |-> i, state |-> st,
     scanning |-> sc, totalspace |-> t, usedspace |-> u, availspace |-> a]

Without(d, keys) == [key \in (DOMAIN d) \ keys |-> d[key]]

\* Kinds of drive entry for the views: healthy, failed, scanning, in several
\* pools and sets, with fields missing
ViewKinds ==
    <<Drive(MaxIndex, 0, 1, "faulty", TRUE, 200, 20, 100),
      Drive(0, 0, 1, "offline", FALSE, 100, 71, 29),
      Drive(0, 1, 0, "ok", TRUE, 300, 150, 150),
      Drive(0, 0, 0, "ok", FALSE, 100, 40, 60),
      Drive(MaxIndex, 0, 0, "ok", FALSE, 0, 0, 0),
      Without(Drive(0, 0, 2, "ok", FALSE, 100, 0, 100), {"state", "scanning"}),
      Without(Drive(0, 1, 0, "offline", TRUE, 100, 100, 0), {"disk_index"}),
      <<>>>>

\* Kinds of drive entry for capacity: sizes that differ, a set of its own
CapacityKinds ==
    <<Drive(0, 0, 0, "ok", FALSE, 100, 50, 50),
      Drive(0, 0, 1, "ok", TRUE, 300, 0, 300),
      Drive(MaxIndex, 0, 0, "offline", FALSE, 0, 0, 0),
      Drive(0, 1, 0, "offline", TRUE, 200, 150, 50)>>

\* Kinds of drive entry for the low-space listing
LowSpaceKinds ==
    <<Drive(0, 0, 0, "ok", FALSE, 100, 71, 29),
      Drive(0, 0, 1, "ok", FALSE, 300, 270, 30),
      Drive(0, 1, 0, "offline", FALSE, 100, 50, 50),
      Drive(MaxIndex, 0, 0, "ok", TRUE, 200, 180, 20),
      Drive(MaxIndex, 1, 0, "ok", FALSE, 0, 0, 0)>>

\* The drive entries picks selects from kinds, each with a uuid of its own
DrivesOf(kinds, picks) ==
    [i \in 1..Len(picks) |-> kinds[picks[i]] @@ [uuid |-> ToString(i)]]

\* The selections of n kinds, as indexes that never decrease
Picks(n, kinds) ==
    {picks \in [1..n -> 1..Len(kinds)] : \A i \in 1..(n - 1) : picks[i] <= picks[i + 1]}

\* Storage-class settings of a server: none, or the value's text
EnvTexts ==
    <<<<"E", "C", ":", "0">>, <<"E", "C", ":", "1">>, <<"E", "C", ":", "3">>,
      <<"E", "C", ":", "-", "1">>, <<"E", "C", ":">>, <<"E", "C", ":", "x">>,
      <<"X", "X", ":", "4">>, <<"E", "C", ":", "4", ":", "1">>>>

Server(drives, env) ==
    [endpoint |-> "node1", drives |-> drives]
    @@ (IF env = 0 THEN <<>>
        ELSE [minio_env_vars |-> [MINIO_STORAGE_CLASS_STANDARD |-> EnvTexts[env]]])

\* Explicit topologies: one that omits keys, one in another order with a set
\* that may have no drive
ExplicitPools ==
    <<<<[idx |-> "0", sets |-> <<"0">>]>>,
      <<[idx |-> Str(MaxIndex), sets |-> <<"0">>],
        [idx |-> "0", sets |-> <<"1", "0">>]>>>>

Container(srvs, topology) ==
    [servers |-> srvs]
    @@ (IF topology = 0 THEN <<>> ELSE [pools |-> ExplicitPools[topology]])

\* A file holding one JSON object on one line
OneLine(obj) == <<[whole |-> <<obj>>, lines |-> <<<<obj>>>>]>>

StandardFile(drives, env, topology) ==
    OneLine([info |-> Container(<<Server(drives, env)>>, topology)])

\* Documents of every shape, around one small container
SmallContainer ==
    [servers |-> <<Server(DrivesOf(ViewKinds, <<4>>), 0)>>, deploymentID |-> "A"]
OtherContainer ==
    [servers |-> <<Server(DrivesOf(ViewKinds, <<2, 3>>), 3)>>, deploymentID |-> "B"]
NoServers == [deploymentID |-> "C"]

ShapeFiles ==
    <<<<>>,                                                  \* no such file
      <<[whole |-> <<>>, lines |-> <<<<>>, <<>>>>]>>,        \* not JSON at all
      OneLine([info |-> SmallContainer]),
      OneLine([minio |-> [info |-> SmallContainer]]),
      OneLine([minio |-> [info |-> SmallContainer], info |-> OtherContainer]),
      OneLine([minio |-> [version |-> "1"], info |-> OtherContainer]),
      OneLine([minio |-> [version |-> "1"]]),
      OneLine([version |-> "1", time |-> "now"]),
      OneLine([info |-> NoServers]),
      OneLine([minio |-> [info |-> NoServers], info |-> SmallContainer]),
      \* one object over several lines
      <<[whole |-> <<[version |-> "1"]>>, lines |-> <<<<>>, <<>>, <<>>>>]>>,
      \* one object whose second line is an object with an info key
      <<[whole |-> <<[wrapper |-> [info |-> SmallContainer]]>>,
         lines |-> <<<<>>, <<[info |-> SmallContainer]>>, <<>>>>]>>,
      \* one object whose second line is an object with a minio key and no
      \* info in it, and whose fourth line is an object with an info key
      <<[whole |-> <<[a |-> [minio |-> [version |-> "1"]], b |-> [info |-> SmallContainer]]>>,
         lines |-> <<<<>>, <<[minio |-> [version |-> "1"]]>>, <<>>,
                     <<[info |-> SmallContainer]>>, <<>>>>]>>,
      \* newline-delimited objects
      <<[whole |-> <<>>,
         lines |-> <<<<>>, <<[version |-> "1"]>>, <<[info |-> SmallContainer]>>,
                     <<[minio |-> [info |-> OtherContainer]]>>>>]>>,
      <<[whole |-> <<>>,
         lines |-> <<<<[minio |-> [version |-> "1"]]>>,
                     <<[info |-> SmallContainer]>>>>]>>,
      <<[whole |-> <<>>, lines |-> <<<<[version |-> "1"]>>, <<[time |-> "now"]>>>>]>>>>

\* Command lines of every kind against documents of every shape
InitShapes ==
    /\ file \in Range(ShapeFiles)
    /\ \/ argv = <<>>
       \/ argv = <<Flag("--summary"), FileArg>>
       \/ \E n \in 0..7 : argv = <<FileArg>> \o FlagArgs(n)
       \/ \E n \in 0..7, t \in 1..Len(LowSpaceTexts) :
            argv = <<FileArg>> \o FlagArgs(n) \o <<LowSpaceArg(LowSpaceTexts[t])>>
       \/ argv = <<FileArg, LowSpaceArg(<<"a">>), Flag("--summary"),
                   LowSpaceArg(<<"5">>)>>
       \/ argv = <<FileArg, LowSpaceArg(<<"5", "=", "x">>), Flag("--summary")>>

\* Every view of documents of up to MaxDrives drives
InitViews ==
    \E n \in 0..MaxDrives, flags \in 0..7, topology \in 0..Len(ExplicitPools) :
        \E picks \in Picks(n, ViewKinds) :
            /\ argv = <<FileArg>> \o FlagArgs(flags)
            /\ file = StandardFile(DrivesOf(ViewKinds, picks), 0, topology)

\* Capacity under every parity setting
InitCapacity ==
    \E n \in 0..MaxSetSize, env \in 0..Len(EnvTexts), flags \in {0, 1, 4} :
        \E picks \in Picks(n, CapacityKinds) :
            /\ argv = <<FileArg>> \o FlagArgs(flags)
            /\ file = StandardFile(DrivesOf(CapacityKinds, picks), env, 0)

\* The low-space listing
InitLowSpace ==
    \E n \in 0..MaxDrives, t \in 1..3, topology \in 0..1 :
        \E picks \in Picks(n, LowSpaceKinds) :
            /\ argv = <<FileArg, Flag("--summary"), LowSpaceArg(LowSpaceTexts[t])>>
            /\ file = StandardFile(DrivesOf(LowSpaceKinds, picks), 0, topology)

\* Several servers, each with its own storage-class setting
InitServers ==
    \E e1 \in 0..Len(EnvTexts), e2 \in 0..Len(EnvTexts), n \in 0..1 :
        /\ argv = <<FileArg>>
        /\ file = OneLine([info |-> [servers |->
                    <<[endpoint |-> "node0"],
                      Server(DrivesOf(CapacityKinds, [i \in 1..n |-> 1]), e1),
                      Server(DrivesOf(CapacityKinds, <<1, 2>>), e2)>>]])

\* A drive entry with every field, and the sets of fields an entry may lack:
\* each field alone, all but disk_index, and all
FullDrive == Drive(0, 1, 1, "ok", TRUE, 100, 40, 60)

MissingFields ==
    {{f} : f \in DOMAIN FullDrive}
    \cup {(DOMAIN FullDrive) \ {"disk_index"}, DOMAIN FullDrive}

\* An entry with fields missing beside a full one, in every mode
InitMissing ==
    \E missing \in MissingFields, mode \in 0..8 :
        /\ argv = IF mode = 8
                  THEN <<FileArg, Flag("--summary"), LowSpaceArg(LowSpaceTexts[2])>>
                  ELSE <<FileArg>> \o FlagArgs(mode)
        /\ file = StandardFile(<<FullDrive @@ [uuid |-> "1"],
                                 Without(FullDrive, missing) @@ [uuid |-> "2"]>>, 0, 0)

Init ==
    /\ \/ InitShapes \/ InitViews \/ InitCapacity \/ InitLowSpace \/ InitServers
       \/ InitMissing
    /\ pc = "args"
    /\ exit_code = 0
    /\ exc = "none"
    /\ out = <<>>
    /\ file_opened = FALSE
    /\ summary_mode = FALSE /\ scanning_mode = FALSE /\ failed_mode = FALSE
    /\ low_space_threshold = None
    /\ data = <<>> /\ servers = <<>> /\ info_path = <<>> /\ pools = <<>>
    /\ parity_disks = DefaultParity
    /\ cur = 0
    /\ total_disks = 0 /\ scanning_disks = 0 /\ ok_disks = 0 /\ bad_disks = 0
    /\ total_space = 0 /\ used_space = 0
    /\ pool_set_drives = <<>>
    /\ pool_pos = 0

Next ==
    \/ ParseArgs
    \/ LoadJSON
    \/ ResolveServers
    \/ BuildPools
    \/ DetectParity
    \/ InventoryDrive
    \/ ClusterSummary
    \/ PoolSummary
    \/ ReportHeader
    \/ LowSpaceReport
    \/ FailedTable
    \/ PoolIteration
    \/ EndOfScript

Spec == Init /\ [][Next]_vars

\* ------------------------------------------------------------------------
\* Properties
\* ------------------------------------------------------------------------
\* The lines of one kind printed so far, in order
Lines(kind) == SelectSeq(out, LAMBDA l : l.k = kind)

\* The drive entries of the document, in document order
DocDrives == AllDrives(servers)

PoolUsableLines == Lines("  Usable Capacity")

\* The ratio as the specification words it
SpecRatio(n, parity) ==
    IF n = 0 THEN <<0, 1>>
    ELSE IF n >= parity THEN Rat(n - parity, n)
    ELSE <<0, 1>>

\* The ratio times the sum of the set's totalSpace, summed over a pool's sets
RECURSIVE SpecPoolUsable(_, _)
SpecPoolUsable(pool_idx, sets) ==
    IF sets = <<>> THEN <<0, 1>>
    ELSE RatAdd(RatMulInt(SpecRatio(Len(SetDrives(pool_set_drives, pool_idx, Head(sets))),
                                    parity_disks),
                          SumField(SetDrives(pool_set_drives, pool_idx, Head(sets)),
                                   "total_space")),
                SpecPoolUsable(pool_idx, Tail(sets)))

\* C1: for every parity the inference returns, a set's usable ratio is 0
\* without drives, (diskCount - parity) / diskCount when diskCount >= parity and
\* 0 when diskCount < parity, and its usable space is the ratio times the sum
\* of its drives' totalSpace: every pool's printed usable capacity is the sum
\* of that over the pool's sets.
C1_UsableSpace ==
    Len(PoolUsableLines) > 0 =>
        /\ Len(PoolUsableLines) = Len(pools)
        /\ \A i \in 1..Len(pools) :
             /\ PoolUsableLines[i].idx = pools[i].idx
             /\ PoolUsableLines[i].v = SpecPoolUsable(pools[i].idx, pools[i].sets)

\* C1's example: a set of 4 drives of 100 under parity 2 yields 200
C1_FourDrivesParityTwo ==
    /\ parity_disks = 2
    /\ \E key \in DOMAIN pool_set_drives :
         /\ Len(pool_set_drives[key]) = 4
         /\ \A j \in 1..4 : pool_set_drives[key][j].total_space = 100
    /\ Len(pools) = 1 /\ Len(pools[1].sets) = 1
    /\ Len(PoolUsableLines) = 1
    /\ PoolUsableLines[1].v = <<200, 1>>

PoolRawOf(pool) == SumField(PoolDrives(pool_set_drives, pool.idx, pool.sets), "total_space")

\* C2: for every parity the inference can return, the usable space summed
\* over sets is at most the totalSpace summed over the same sets, and the two
\* are equal only under parity 0 (here: over each pool's sets, and leaving
\* alone the pools of no capacity, where both sums are 0).
C2_UsableAtMostRaw ==
    \A i \in 1..Len(PoolUsableLines) :
        /\ RatLeq(PoolUsableLines[i].v, <<PoolRawOf(pools[i]), 1>>)
        /\ PoolUsableLines[i].v = <<PoolRawOf(pools[i]), 1>> /\ PoolRawOf(pools[i]) > 0
             => parity_disks = 0

\* C2's failing run: a negative parity read from the document
C2_NegativeParity ==
    /\ parity_disks < 0
    /\ \E i \in 1..Len(PoolUsableLines) :
         ~RatLeq(PoolUsableLines[i].v, <<PoolRawOf(pools[i]), 1>>)

\* What the tallies are over a sequence of drive entries
TalliesOf(drives) ==
    <<Len(drives),
      Len(SelectSeq(drives, LAMBDA d : "scanning" \in DOMAIN d /\ d.scanning)),
      Len(SelectSeq(drives, LAMBDA d : "state" \in DOMAIN d /\ d.state = "ok")),
      Len(SelectSeq(drives, LAMBDA d : ~("state" \in DOMAIN d /\ d.state = "ok"))),
      SumSeq([i \in 1..Len(drives) |->
                IF "totalspace" \in DOMAIN drives[i] THEN drives[i].totalspace ELSE 0]),
      SumSeq([i \in 1..Len(drives) |->
                IF "usedspace" \in DOMAIN drives[i] THEN drives[i].usedspace ELSE 0])>>

TallyLinesPrinted ==
    <<Lines("Total Disks")[1].v, Lines("Scanning Disks")[1].v,
      Lines("Healthy Disks")[1].v, Lines("Problem Disks")[1].v>>

\* C3: the tallies of the inventory pass (total, scanning, ok and not-ok
\* counts, summed raw total and used space, hence the health figure) are those
\* of all drives of all servers, whatever --scanning and --failed are: at
\* every step they are the counts over the drives visited so far, and the
\* cluster summary prints the counts over the whole document.
C3_TalliesOverAllDrives ==
    /\ tallies = TalliesOf(SubSeq(DocDrives, 1, cur))
    /\ Len(Lines("Total Disks")) > 0 =>
         /\ TallyLinesPrinted = SubSeq(TalliesOf(DocDrives), 1, 4)
         /\ Len(DocDrives) > 0 =>
              Lines("Health")[1].v = Rat(TalliesOf(DocDrives)[3] * 100, Len(DocDrives))
         /\ TalliesOf(DocDrives)[5] > 0 =>
              Lines("Raw Capacity")[1].v = TalliesOf(DocDrives)[5]
              /\ Lines("Used Space")[1].v = TalliesOf(DocDrives)[6]

\* C3's case: both filters set, a drive they hide, and the summary printed
C3_FilteredRunCountsAll ==
    /\ scanning_mode /\ failed_mode
    /\ Len(Lines("Total Disks")) > 0
    /\ Len(DocDrives) >= 2
    /\ \E i \in 1..Len(DocDrives) : ~Displayed(DocDrives[i])
    /\ \E i \in 1..Len(DocDrives) : Displayed(DocDrives[i])
    /\ Lines("Total Disks")[1].v = Len(DocDrives)

\* The rows of every drive table printed so far
TableLines == Lines("table")

\* The key the tables are to be ordered by; an absent disk_index has none
RowKey(row) == <<KeyInt(row.pool), KeyInt(row.set), row.disk_index>>

Ascending(rows) ==
    \A i \in 1..Len(rows), j \in 1..Len(rows) :
        i < j => ~TupleLess(RowKey(rows[j]), RowKey(rows[i]))

\* The run prints drive tables: neither summaries nor the low-space listing
TableMode == ~summary_mode

\* C4: every drive table printed has its rows in ascending order of
\* (poolIndex, setIndex, diskIndex), whatever the order of the document, the
\* documents with drives whose disk_index is absent included: a run that
\* reaches its tables prints them and ends normally.
C4_TablesAscending ==
    /\ \A t \in 1..Len(TableLines) : Ascending(TableLines[t].rows)
    /\ pc = "done" /\ TableMode /\ Len(Lines("title")) > 0 => exc = "none"

\* C4's failing run: a displayed drive without disk_index ends the run in the
\* sort, before its table is printed
C4_AbsentIndexRaises ==
    /\ pc = "done" /\ exc = "ValueError" /\ exit_code = 1
    /\ \E i \in 1..Len(DocDrives) :
         Displayed(DocDrives[i]) /\ "disk_index" \notin DOMAIN DocDrives[i]
    /\ Len(DocDrives) = 1
    /\ TableLines = <<>>

\* The uuids of the drives of the document that are not ok, as a set, and
\* how many there are
FailedOfDocument ==
    SelectSeq(DocDrives, LAMBDA d : ~("state" \in DOMAIN d /\ d.state = "ok"))

UuidsOf(drives) == {drives[i].uuid : i \in 1..Len(drives)}

\* C5: with --failed and without --summary the output is one flat table
\* whose rows are exactly the drives of the document that are not ok (a drive
\* without state is not ok), under a synthesized and under an explicit
\* topology alike (here: for the runs without --scanning that end normally).
C5_FlatTableOfAllFailed ==
    pc = "done" /\ exc = "none" /\ exit_code = 0
    /\ failed_mode /\ ~summary_mode /\ ~scanning_mode /\ FailedOfDocument # <<>>
    => /\ Len(TableLines) = 1
       /\ Len(TableLines[1].rows) = Len(FailedOfDocument)
       /\ UuidsOf(TableLines[1].rows) = UuidsOf(FailedOfDocument)

\* C5's failing run: an explicit topology that omits the set of a failed
\* drive, and a run that reports no failed drive at all
C5_FailedDriveOmitted ==
    /\ pc = "done" /\ exc = "none" /\ exit_code = 0
    /\ failed_mode /\ ~summary_mode /\ ~scanning_mode
    /\ "pools" \in DOMAIN info_path
    /\ FailedOfDocument # <<>>
    /\ TableLines = <<>>
    /\ Len(Lines("info")) = 1

\* The drives of the document in set <<pool key, set key>> that are scanning
ScanningIn(pool_idx, set_idx) ==
    SelectSeq(DocDrives, LAMBDA d :
        /\ "scanning" \in DOMAIN d /\ d.scanning
        /\ Get(d, "pool_index", 0) = KeyInt(pool_idx)
        /\ Get(d, "set_index", 0) = KeyInt(set_idx))

\* The lines printed for one erasure set, of any view
SetOutput ==
    SelectSeq(out, LAMBDA l : l.k \in {"set header", "set summary", "low-space set"})

SetKeyOf(l) == IF l.k = "low-space set" THEN <<l.pool_idx, l.set_idx>> ELSE <<l.pool, l.set>>

\* C6: with --scanning every drive shown is scanning, no erasure set without
\* a scanning drive has output of its own, and when no drive of the document
\* is scanning the run prints one informational line for the result and ends
\* with exit code 0.
C6_ScanningView ==
    scanning_mode =>
        /\ \A t \in 1..Len(TableLines) :
             \A i \in 1..Len(TableLines[t].rows) : TableLines[t].rows[i].scanning
        /\ \A i \in 1..Len(SetOutput) :
             ScanningIn(SetKeyOf(SetOutput[i])[1], SetKeyOf(SetOutput[i])[2]) # <<>>
        /\ \A i \in 1..Len(Lines("set summary")) :
             Lines("set summary")[i].scanning = Lines("set summary")[i].total_drives
        /\ pc = "done" /\ Len(Lines("title")) > 0
           /\ (\A i \in 1..Len(DocDrives) : ~Get(DocDrives[i], "scanning", FALSE))
           => /\ exit_code = 0 /\ exc = "none"
              /\ Lines("info") = <<[k |-> "info", what |-> "No scanning disks found"]>>
              /\ TableLines = <<>> /\ SetOutput = <<>>

\* C6's case: a table of scanning drives, beside a set whose drives are not
\* scanning and which has no output
C6_ScanningTableShown ==
    /\ scanning_mode /\ pc = "done" /\ exc = "none"
    /\ Len(TableLines) = 1 /\ Len(TableLines[1].rows) >= 1
    /\ \E i \in 1..Len(DocDrives) :
         /\ ~Get(DocDrives[i], "scanning", FALSE)
         /\ \A j \in 1..Len(SetOutput) :
              SetKeyOf(SetOutput[j]) # <<Str(Get(DocDrives[i], "pool_index", 0)),
                                         Str(Get(DocDrives[i], "set_index", 0))>>

LowSpaceLines == Lines("low-space set")

LowSpaceDrives(l) == SetDrives(pool_set_drives, l.pool_idx, l.set_idx)

\* A drive's own free-space percentage (lines 311-314), exactly
DrivePct(d) ==
    IF d.total_space > 0 THEN Rat(d.available_space * 100, d.total_space) ELSE <<0, 1>>

RECURSIVE SumDrivePcts(_)
SumDrivePcts(drives) ==
    IF drives = <<>> THEN <<0, 1>>
    ELSE RatAdd(DrivePct(Head(drives)), SumDrivePcts(Tail(drives)))

\* The mean of the drives' percentages, each drive weighing the same
MeanOfDrivePcts(drives) ==
    Rat(SumDrivePcts(drives)[1], SumDrivePcts(drives)[2] * Len(drives))

\* The summed availableSpace over the summed totalSpace, as a percentage
CapacityWeightedPct(drives) ==
    IF SumField(drives, "total_space") > 0
    THEN Rat(SumField(drives, "available_space") * 100, SumField(drives, "total_space"))
    ELSE <<0, 1>>

Times100(x) == IF x = FZero THEN FZero ELSE [m |-> BNMulAdd(x.m, 100, 0), e |-> x.e]

\* The float x is within a hundredth of the rational r >= 0
Near(x, r) ==
    /\ FCmpRat(Times100(x), 100 * r[1] + r[2], r[2]) <= 0
    /\ 100 * r[1] - r[2] < 0 \/ FCmpRat(Times100(x), 100 * r[1] - r[2], r[2]) >= 0

\* C7 as claimed: the average free-space percentage of a listed set is the
\* mean of its drives' free-space percentages, each drive weighing the same.
C7_MeanOfDrivePercentages ==
    \A i \in 1..Len(LowSpaceLines) :
        Near(LowSpaceLines[i].avg_free_space_pct,
             MeanOfDrivePcts(LowSpaceDrives(LowSpaceLines[i])))

\* C7 as amended: the average free-space percentage of a set is its mean
\* availableSpace over its mean totalSpace, times 100, which is the
\* capacity-weighted figure: the summed availableSpace over the summed
\* totalSpace (0 when that is 0), up to the rounding of the floats.
C7_CapacityWeighted ==
    \A i \in 1..Len(LowSpaceLines) :
        Near(LowSpaceLines[i].avg_free_space_pct,
             CapacityWeightedPct(LowSpaceDrives(LowSpaceLines[i])))

\* C7's case: a listed set whose drives differ in totalSpace, where the two
\* figures are more than two hundredths apart
C7_UnequalDrivesListed ==
    \E i \in 1..Len(LowSpaceLines) :
        /\ \E a, b \in 1..Len(LowSpaceDrives(LowSpaceLines[i])) :
             LowSpaceDrives(LowSpaceLines[i])[a].total_space
               # LowSpaceDrives(LowSpaceLines[i])[b].total_space
        /\ ~Near(LowSpaceLines[i].avg_free_space_pct,
                 MeanOfDrivePcts(LowSpaceDrives(LowSpaceLines[i])))

\* The threshold exceeds the exact percentage of the drives
ExactlyBelow(drives, threshold) ==
    /\ ~threshold.neg
    /\ FCmpRat(threshold.f, CapacityWeightedPct(drives)[1],
               CapacityWeightedPct(drives)[2]) > 0

\* The sets of the topology that have drives and are strictly below the threshold
Qualifying ==
    {key \in Range(TopologyKeys(pools)) :
        /\ SetDrives(pool_set_drives, key[1], key[2]) # <<>>
        /\ ExactlyBelow(SetDrives(pool_set_drives, key[1], key[2]),
                        low_space_threshold[1])}

\* C8: with --summary --low-space=T the sets listed are exactly the sets
\* with drives whose average free-space percentage is strictly below T (a
\* set at exactly T is not listed), in descending order of average used-space
\* percentage; when none qualifies the run prints an informational line and
\* ends with exit code 0.
C8_StrictlyBelowThreshold ==
    pc = "done" /\ LowSpaceSelected /\ Len(Lines("title")) > 0 =>
        /\ exit_code = 0 /\ exc = "none"
        /\ {<<LowSpaceLines[i].pool_idx, LowSpaceLines[i].set_idx>> :
              i \in 1..Len(LowSpaceLines)} = Qualifying
        /\ Len(LowSpaceLines) = Cardinality(Qualifying)
        /\ \A i \in 1..Len(LowSpaceLines), j \in 1..Len(LowSpaceLines) :
             i < j => ~FLess(LowSpaceLines[i].avg_space_used_pct,
                             LowSpaceLines[j].avg_space_used_pct)
        /\ Qualifying = {} => Len(Lines("info")) = 1

\* C8's failing run: a set listed whose percentage is exactly the threshold
C8_SetAtThresholdListed ==
    /\ pc = "done" /\ exit_code = 0
    /\ \E i \in 1..Len(LowSpaceLines) :
         FCmpRat(low_space_threshold[1].f,
                 CapacityWeightedPct(LowSpaceDrives(LowSpaceLines[i]))[1],
                 CapacityWeightedPct(LowSpaceDrives(LowSpaceLines[i]))[2]) = 0

\* The positions of the --low-space=<value> arguments
GivenLowSpace == {i \in 1..Len(argv) : argv[i].opt = "--low-space="}

\* The value of such an argument: its text up to the next "="
ValueText(a) ==
    IF IndexOf(a.val, "=") = 0 THEN a.val ELSE SubSeq(a.val, 1, IndexOf(a.val, "=") - 1)

Unsigned(s) == IF s # <<>> /\ s[1] \in {"+", "-"} THEN Tail(s) ELSE s

\* A decimal number: an optional sign, digits, at most one point
NumberText(s) ==
    /\ \A i \in 1..Len(Unsigned(s)) : Unsigned(s)[i] \in Digits \cup {"."}
    /\ Cardinality({i \in 1..Len(Unsigned(s)) : Unsigned(s)[i] = "."}) <= 1
    /\ \E i \in 1..Len(Unsigned(s)) : Unsigned(s)[i] \in Digits

ValueRejected == \E i \in GivenLowSpace : ~NumberText(ValueText(argv[i]))

SummaryMissing ==
    GivenLowSpace # {} /\ ~(\E i \in 1..Len(argv) : argv[i].opt = "--summary")

\* C9: --low-space=<pct> without --summary, and --low-space with a value
\* that is no number, each end the run with exit code 1, decided before the
\* file is opened and before any line of the report: the run never gets
\* past its arguments, whether or not the file exists or is valid.
C9_LowSpaceRejectedFirst ==
    ValueRejected \/ SummaryMissing =>
        /\ pc \in {"args", "done"}
        /\ ~file_opened
        /\ pc = "done" =>
             /\ exit_code = 1 /\ exc = "none"
             /\ out = <<[k |-> "error",
                         what |-> IF ValueRejected THEN "invalid --low-space value"
                                  ELSE "--low-space requires --summary"]>>

\* C9's case: --low-space without --summary, naming a file that does not exist
C9_RejectedThoughFileMissing ==
    /\ pc = "done" /\ exit_code = 1
    /\ SummaryMissing /\ ~ValueRejected
    /\ file = <<>>
    /\ ~file_opened
    /\ Len(out) = 1

\* The document has a servers list under neither shape
NoServersList ==
    /\ ~("minio" \in DOMAIN data /\ "info" \in DOMAIN data.minio
         /\ "servers" \in DOMAIN data.minio.info)
    /\ ~("info" \in DOMAIN data /\ "servers" \in DOMAIN data.info)

\* C10: a document that is valid JSON and has no servers list under either
\* shape (no container, or a container without servers) ends the run with a
\* message that lists the top-level keys and exit code 1, and no report line.
C10_SchemaErrorReported ==
    pc = "done" /\ DOMAIN data # {} /\ NoServersList =>
        /\ exit_code = 1 /\ exc = "none"
        /\ out = <<[k |-> "error", what |-> "could not find servers"],
                   [k |-> "available keys", keys |-> DOMAIN data]>>

\* C10's failing run: a container without servers ends the run in a KeyError
C10_ContainerWithoutServers ==
    /\ pc = "done" /\ exit_code = 1 /\ exc = "KeyError"
    /\ "info" \in DOMAIN data /\ "servers" \notin DOMAIN data.info
    /\ "minio" \notin DOMAIN data
    /\ out = <<>>

\* The storage-class value of a server, <<>> when it has none
StorageClass(server) ==
    IF "minio_env_vars" \in DOMAIN server
       /\ "MINIO_STORAGE_CLASS_STANDARD" \in DOMAIN server.minio_env_vars
    THEN <<server.minio_env_vars.MINIO_STORAGE_CLASS_STANDARD>>
    ELSE <<>>

\* The text of a value after "EC:" and up to the next ":"
AfterEC(text) ==
    IF IndexOf(SubSeq(text, 4, Len(text)), ":") = 0 THEN SubSeq(text, 4, Len(text))
    ELSE SubSeq(text, 4, 2 + IndexOf(SubSeq(text, 4, Len(text)), ":"))

\* The server has a value EC:<integer>, the integer an optionally signed decimal
YieldsParity(server) ==
    /\ StorageClass(server) # <<>>
    /\ Len(StorageClass(server)[1]) >= 3
    /\ SubSeq(StorageClass(server)[1], 1, 3) = <<"E", "C", ":">>
    /\ Unsigned(AfterEC(StorageClass(server)[1])) # <<>>
    /\ \A i \in 1..Len(Unsigned(AfterEC(StorageClass(server)[1]))) :
         Unsigned(AfterEC(StorageClass(server)[1]))[i] \in Digits

ParityOf(server) ==
    IF AfterEC(StorageClass(server)[1])[1] = "-"
    THEN -DigitsValue(Unsigned(AfterEC(StorageClass(server)[1])))
    ELSE DigitsValue(Unsigned(AfterEC(StorageClass(server)[1])))

\* The parity of the first server in list order that yields one, else 2
FirstParity(srvs) ==
    IF \E i \in 1..Len(srvs) : YieldsParity(srvs[i])
    THEN ParityOf(srvs[CHOOSE i \in 1..Len(srvs) :
                         /\ YieldsParity(srvs[i])
                         /\ \A j \in 1..(i - 1) : ~YieldsParity(srvs[j])])
    ELSE 2

ParityLines == Lines("Detected Erasure Coding Configuration")

\* C11: parity inference returns the integer of the first server, in list
\* order, whose storage-class value is EC:<integer> (servers without a value
\* or with one that does not parse are passed over), and 2 when there is
\* none; no value ends the run: every run that resolved its servers goes on
\* to print the detected parity and ends, if it has ended, without an
\* exception raised by the inference.
C11_FirstParsedParity ==
    /\ Len(ParityLines) <= 1
    /\ Len(ParityLines) = 1 =>
         /\ parity_disks = FirstParity(servers)
         /\ ParityLines[1].v = FirstParity(servers)
    /\ pc \in {"inventory", "pool summary", "header", "report"} => Len(ParityLines) = 1
    /\ pc = "done" /\ info_path # <<>> => Len(ParityLines) = 1

\* C11's case: a server whose value does not parse, passed over for a later
\* server whose value does
C11_LaterServerUsed ==
    /\ Len(ParityLines) = 1
    /\ \E i \in 1..Len(servers), j \in 1..Len(servers) :
         /\ i < j
         /\ StorageClass(servers[i]) # <<>> /\ ~YieldsParity(servers[i])
         /\ YieldsParity(servers[j]) /\ ParityOf(servers[j]) = 3
         /\ \A h \in 1..(j - 1) : ~YieldsParity(servers[h])
    /\ parity_disks = 3

\* The drives of the document that belong to set <<pool key, set key>>
DrivesIn(pool_idx, set_idx) ==
    SelectSeq(DocDrives, LAMBDA d :
        /\ Get(d, "pool_index", 0) = KeyInt(pool_idx)
        /\ Get(d, "set_index", 0) = KeyInt(set_idx))

\* Neither --summary nor --scanning nor --failed
DefaultMode == ~summary_mode /\ ~scanning_mode /\ ~failed_mode

ExplicitTopology == "pools" \in DOMAIN info_path

\* Every drive of the document has a disk_index
AllIndexed == \A i \in 1..Len(DocDrives) : "disk_index" \in DOMAIN DocDrives[i]

\* The set has a section of its own in the per-set output
HasSection(pool_idx, set_idx) ==
    \E j \in 1..Len(Lines("set header")) :
        /\ Lines("set header")[j].pool = pool_idx
        /\ Lines("set header")[j].set = set_idx

\* C12: when the explicit topology lists an erasure set that no drive of the
\* document matches, the default output (no --summary, no --scanning) still
\* has a section for that set, shown as empty, and the run ends without error
\* (here: for documents whose drives all have a disk_index).
C12_EmptySetRendered ==
    pc = "done" /\ DefaultMode /\ ExplicitTopology /\ AllIndexed
    /\ Len(Lines("title")) > 0
    => /\ exit_code = 0 /\ exc = "none"
       /\ \A i \in 1..Len(TopologyKeys(pools)) :
            DrivesIn(TopologyKeys(pools)[i][1], TopologyKeys(pools)[i][2]) = <<>>
            => HasSection(TopologyKeys(pools)[i][1], TopologyKeys(pools)[i][2])

\* C12's failing run: a listed set without drives has no section, beside a
\* set whose table is printed
C12_EmptySetSkipped ==
    /\ pc = "done" /\ exit_code = 0 /\ exc = "none"
    /\ DefaultMode /\ ExplicitTopology /\ AllIndexed
    /\ Len(TableLines) >= 1
    /\ \E i \in 1..Len(TopologyKeys(pools)) :
         /\ DrivesIn(TopologyKeys(pools)[i][1], TopologyKeys(pools)[i][2]) = <<>>
         /\ ~HasSection(TopologyKeys(pools)[i][1], TopologyKeys(pools)[i][2])

\* The drives of the document in set <<pool key, set key>> that are not ok (a
\* drive without state is not ok) and, under --scanning, scanning
FailedIn(pool_idx, set_idx) ==
    SelectSeq(DrivesIn(pool_idx, set_idx), LAMBDA d :
        /\ ~("state" \in DOMAIN d /\ d.state = "ok")
        /\ scanning_mode => ("scanning" \in DOMAIN d /\ d.scanning))

SummaryFor(pool_idx, set_idx) ==
    SelectSeq(Lines("set summary"), LAMBDA l : l.pool = pool_idx /\ l.set = set_idx)

\* The run printed the per-pool report with --failed and --summary
FailedSummaryDone ==
    /\ pc = "done" /\ failed_mode /\ summary_mode /\ ~LowSpaceSelected
    /\ Len(Lines("title")) > 0

\* C13: with --failed and --summary a summary line is printed exactly for the
\* sets that contain at least one drive whose state is not ok, counting those
\* drives, and a pool none of whose sets contains such a drive has no output:
\* no pool header.
C13_FailedSummary ==
    FailedSummaryDone =>
        /\ exit_code = 0 /\ exc = "none"
        /\ Len(Lines("set summary")) =
             Cardinality({i \in 1..Len(TopologyKeys(pools)) :
                 FailedIn(TopologyKeys(pools)[i][1], TopologyKeys(pools)[i][2]) # <<>>})
        /\ \A i \in 1..Len(TopologyKeys(pools)) :
             LET key == TopologyKeys(pools)[i]
             IN  IF FailedIn(key[1], key[2]) = <<>>
                 THEN SummaryFor(key[1], key[2]) = <<>>
                 ELSE /\ Len(SummaryFor(key[1], key[2])) = 1
                      /\ SummaryFor(key[1], key[2])[1].bad = Len(FailedIn(key[1], key[2]))
                      /\ SummaryFor(key[1], key[2])[1].good = 0
        /\ \A p \in 1..Len(pools) :
             (\E j \in 1..Len(Lines("pool header")) : Lines("pool header")[j].idx = pools[p].idx)
             <=> (\E s \in 1..Len(pools[p].sets) : FailedIn(pools[p].idx, pools[p].sets[s]) # <<>>)
        /\ Len(Lines("pool header")) <= Len(pools)

\* C13's case: one set with a failed drive and its line, beside a set of the
\* same pool and a pool whose drives are all ok, which have no output
C13_OnlyFailedSetsListed ==
    /\ FailedSummaryDone /\ ~scanning_mode
    /\ Len(pools) = 2
    /\ Len(Lines("pool header")) = 1
    /\ Len(Lines("set summary")) = 1
    /\ \E p \in 1..Len(pools) :
         /\ Lines("pool header")[1].idx # pools[p].idx
         /\ \E s \in 1..Len(pools[p].sets) : DrivesIn(pools[p].idx, pools[p].sets[s]) # <<>>
    /\ \E i \in 1..Len(TopologyKeys(pools)) :
         /\ TopologyKeys(pools)[i][1] = Lines("pool header")[1].idx
         /\ DrivesIn(TopologyKeys(pools)[i][1], TopologyKeys(pools)[i][2]) # <<>>
         /\ SummaryFor(TopologyKeys(pools)[i][1], TopologyKeys(pools)[i][2]) = <<>>

\* C14: a drive entry with any of its fields missing never ends the run
\* abnormally, in any mode: the missing numbers count as 0 and the missing
\* booleans as false in the aggregates, and the report is produced.
C14_MissingFieldsAbsorbed ==
    /\ Len(Lines("Total Disks")) > 0 => tallies = TalliesOf(DocDrives)
    /\ pc = "done" /\ Len(Lines("Total Disks")) > 0 =>
         /\ exit_code = 0 /\ exc = "none"
         /\ Len(Lines("title")) = 1

\* C14's failing run: of two entries one lacks its disk_index and nothing
\* else, and the run ends in the sort of a table
C14_MissingIndexEndsRun ==
    /\ pc = "done" /\ exit_code = 1 /\ exc = "ValueError"
    /\ Len(DocDrives) = 2
    /\ DOMAIN DocDrives[1] = DOMAIN FullDrive \cup {"uuid"}
    /\ DOMAIN DocDrives[2] = (DOMAIN FullDrive \cup {"uuid"}) \ {"disk_index"}
    /\ tallies = TalliesOf(DocDrives)

\* The summed totalspace of drive entries of the document
RECURSIVE DocTotal(_)
DocTotal(drives) ==
    IF drives = <<>> THEN 0
    ELSE Get(Head(drives), "totalspace", 0) + DocTotal(Tail(drives))

\* The usable space of the sets keys names, each from all drives that belong
\* to the set in the document
RECURSIVE DocUsable(_)
DocUsable(keys) ==
    IF keys = <<>> THEN <<0, 1>>
    ELSE RatAdd(RatMulInt(SpecRatio(Len(DrivesIn(Head(keys)[1], Head(keys)[2])),
                                    parity_disks),
                          DocTotal(DrivesIn(Head(keys)[1], Head(keys)[2]))),
                DocUsable(Tail(keys)))

PoolKeys(pool) == [s \in 1..Len(pool.sets) |-> <<pool.idx, pool.sets[s]>>]

\* The drives of the document in the sets of a pool
RECURSIVE DocPoolDrives(_)
DocPoolDrives(keys) ==
    IF keys = <<>> THEN <<>>
    ELSE DrivesIn(Head(keys)[1], Head(keys)[2]) \o DocPoolDrives(Tail(keys))

\* C15: a set's usable ratio comes from all drives of the set in the
\* document, not from those a view filter lets through: the Usable Capacity,
\* usage percentage and Available Space of the cluster summary and the disk
\* counts and capacities of the Pool Summary are those of the document, with
\* and without --scanning and --failed.
C15_CapacityOfAllDrives ==
    /\ Len(Lines("Usable Capacity")) > 0 =>
         /\ Lines("Usable Capacity")[1].v = DocUsable(TopologyKeys(pools))
         /\ Lines("Used Space")[1].pct =
              Pct(<<used_space, 1>>, DocUsable(TopologyKeys(pools)))
         /\ Lines("Available Space")[1].v =
              RatAdd(DocUsable(TopologyKeys(pools)), <<-used_space, 1>>)
    /\ \A i \in 1..Len(Lines("  Disks")) :
         /\ Lines("  Disks")[i].total = Len(DocPoolDrives(PoolKeys(pools[i])))
         /\ Lines("  Raw Capacity")[i].v = DocTotal(DocPoolDrives(PoolKeys(pools[i])))
         /\ Lines("  Usable Capacity")[i].v = DocUsable(PoolKeys(pools[i]))

\* C15's failing run: under --scanning a set of three drives, two of them
\* scanning, is sized as a set of two drives
C15_FilteredSetResized ==
    /\ scanning_mode /\ ~failed_mode
    /\ Len(Lines("Usable Capacity")) > 0
    /\ \E i \in 1..Len(TopologyKeys(pools)) :
         LET key == TopologyKeys(pools)[i]
         IN  /\ Len(DrivesIn(key[1], key[2])) = 3
             /\ Len(SetDrives(pool_set_drives, key[1], key[2])) = 2
    /\ Lines("Usable Capacity")[1].v # DocUsable(TopologyKeys(pools))

\* The sum of the figures of lines
RECURSIVE SumOfLines(_)
SumOfLines(lines) ==
    IF lines = <<>> THEN <<0, 1>> ELSE RatAdd(Head(lines).v, SumOfLines(Tail(lines)))

\* One set's own ratio times the set's own total, from the drives held for it
SetUsable(pool_idx, set_idx) ==
    RatMulInt(SpecRatio(Len(SetDrives(pool_set_drives, pool_idx, set_idx)), parity_disks),
              SumField(SetDrives(pool_set_drives, pool_idx, set_idx), "total_space"))

RECURSIVE SumSetUsable(_)
SumSetUsable(keys) ==
    IF keys = <<>> THEN <<0, 1>>
    ELSE RatAdd(SetUsable(Head(keys)[1], Head(keys)[2]), SumSetUsable(Tail(keys)))

\* The cluster figure and every pool figure have been printed
BothGranularities ==
    Len(Lines("Usable Capacity")) = 1 /\ Len(PoolUsableLines) = Len(pools)

\* One ratio, that of the drive count, applied to the total of drives
OneRatio(drives) ==
    RatMulInt(SpecRatio(Len(drives), parity_disks), SumField(drives, "total_space"))

\* C16: whenever the cluster figure is computed, the cluster usable space is
\* the sum over the pools of the pool usable space, and each pool's usable
\* space is the sum over its sets of the set's own ratio times the set's own
\* total space.
C16_SumOverSets ==
    BothGranularities =>
        /\ Lines("Usable Capacity")[1].v = SumOfLines(PoolUsableLines)
        /\ Lines("Usable Capacity")[1].v = SumSetUsable(TopologyKeys(pools))
        /\ \A i \in 1..Len(pools) :
             PoolUsableLines[i].v = SumSetUsable(PoolKeys(pools[i]))

\* C16's case: a pool of two sets of different sizes, where one ratio applied
\* to the pool total, or to the cluster total, gives another figure
C16_SetsOfDifferentSize ==
    /\ BothGranularities
    /\ \E i \in 1..Len(pools) :
         /\ Len(pools[i].sets) = 2
         /\ Len(SetDrives(pool_set_drives, pools[i].idx, pools[i].sets[1]))
              # Len(SetDrives(pool_set_drives, pools[i].idx, pools[i].sets[2]))
         /\ PoolUsableLines[i].v
              # OneRatio(PoolDrives(pool_set_drives, pools[i].idx, pools[i].sets))
         /\ PoolUsableLines[i].v[1] > 0
    /\ Lines("Usable Capacity")[1].v # OneRatio(AllPoolDrives(pool_set_drives, pools))

\* The key of a drive entry: its pool and set index as text, 0 when absent
KeyOfDrive(d) == <<Str(Get(d, "pool_index", 0)), Str(Get(d, "set_index", 0))>>

\* The topology has been built from the drives of the document
Synthesized == Len(ParityLines) = 1 /\ ~ExplicitTopology

NoViewFilter == ~scanning_mode /\ ~failed_mode

\* How often the topology-driven iteration comes across a drive record
Visits(disk_info) ==
    Cardinality({i \in 1..Len(AllPoolDrives(pool_set_drives, pools)) :
                    AllPoolDrives(pool_set_drives, pools)[i] = disk_info})

\* How many drive entries of the document give a drive record
Entries(disk_info) ==
    Cardinality({i \in 1..Len(DocDrives) : DiskInfo(DocDrives[i]) = disk_info})

\* How many drives of the bucket of a key are a drive record
InBucket(key, disk_info) ==
    Cardinality({j \in 1..Len(SetDrives(pool_set_drives, key[1], key[2])) :
                    SetDrives(pool_set_drives, key[1], key[2])[j] = disk_info})

RECURSIVE SumOfTotals(_)
SumOfTotals(lines) ==
    IF lines = <<>> THEN 0 ELSE Head(lines).total + SumOfTotals(Tail(lines))

\* C17: without an explicit pools entry the synthesized topology has a key
\* for the (poolIndex, setIndex) pair of every drive, 0 standing for an absent
\* index, each key once; so with no view filter every drive entry is bucketed
\* under exactly one key, the key of its indexes, and visited exactly once by
\* the iteration over the topology (a record is met as often as the document
\* has entries giving it), and the disk counts of the Pool Summary add up to
\* Total Disks.
C17_SynthesizedCoversDrives ==
    Synthesized =>
        /\ \A i \in 1..Len(DocDrives) : KeyOfDrive(DocDrives[i]) \in Range(TopologyKeys(pools))
        /\ Cardinality(Range(TopologyKeys(pools))) = Len(TopologyKeys(pools))
        /\ NoViewFilter /\ Len(Lines("Total Disks")) = 1 =>
             /\ \A i \in 1..Len(DocDrives) :
                  /\ Visits(DiskInfo(DocDrives[i])) = Entries(DiskInfo(DocDrives[i]))
                  /\ InBucket(KeyOfDrive(DocDrives[i]), DiskInfo(DocDrives[i]))
                        = Entries(DiskInfo(DocDrives[i]))
             /\ Len(AllPoolDrives(pool_set_drives, pools)) = Len(DocDrives)
             /\ Len(Lines("  Disks")) = Len(pools) =>
                  SumOfTotals(Lines("  Disks")) = Lines("Total Disks")[1].v

\* C17's case: drives of two pools and three sets, one of them without pool
\* and set index, counted in the Pool Summary
C17_DriveWithoutIndexes ==
    /\ Synthesized /\ NoViewFilter
    /\ Len(pools) = 2 /\ Len(TopologyKeys(pools)) = 3
    /\ Len(DocDrives) = 3
    /\ \E i \in 1..Len(DocDrives) :
         /\ "pool_index" \notin DOMAIN DocDrives[i]
         /\ "set_index" \notin DOMAIN DocDrives[i]
         /\ Entries(DiskInfo(DocDrives[i])) = 1
         /\ Visits(DiskInfo(DocDrives[i])) = 1
         /\ InBucket(<<"0", "0">>, DiskInfo(DocDrives[i])) = 1
    /\ Len(Lines("  Disks")) = 2
    /\ SumOfTotals(Lines("  Disks")) = 3
    /\ Lines("Total Disks")[1].v = 3

\* The drive entries of the document whose key the topology lacks, and the rest
Omitted == SelectSeq(DocDrives, LAMBDA d : KeyOfDrive(d) \notin Range(TopologyKeys(pools)))

Listed == SelectSeq(DocDrives, LAMBDA d : KeyOfDrive(d) \in Range(TopologyKeys(pools)))

\* The topology comes from the document and lacks the key of some drive
OmitsDrives == ExplicitTopology /\ Len(ParityLines) = 1 /\ Omitted # <<>>

\* The keys of the rows of every table printed
RowKeys ==
    UNION {{<<TableLines[i].rows[j].pool, TableLines[i].rows[j].set>> :
               j \in 1..Len(TableLines[i].rows)} : i \in 1..Len(TableLines)}

\* C18: when the explicit topology lacks a (pool, set) key that has drives,
\* those drives are absent from all that the iteration over the topology
\* produces (the Pool Summary, the usable capacity, the per-set tables and
\* summaries, the low-space and failed listings), and they are counted in
\* the Total, Healthy and Problem Disks and in the raw total and used space.
C18_OmittedKeyLeftOut ==
    OmitsDrives =>
        /\ \A i \in 1..Len(Omitted) :
             /\ Visits(DiskInfo(Omitted[i])) = 0
             /\ KeyOfDrive(Omitted[i]) \notin RowKeys
             /\ \A j \in 1..Len(SetOutput) : SetKeyOf(SetOutput[j]) # KeyOfDrive(Omitted[i])
        /\ SumOfTotals(Lines("  Disks")) <= Len(Listed)
        /\ \A i \in 1..Len(Lines("  Raw Capacity")) :
             Lines("  Raw Capacity")[i].v <= DocTotal(DocPoolDrives(PoolKeys(pools[i])))
        /\ NoViewFilter =>
             /\ Len(Lines("  Disks")) = Len(pools) =>
                  SumOfTotals(Lines("  Disks")) = Len(Listed)
             /\ Len(Lines("Usable Capacity")) = 1 =>
                  Lines("Usable Capacity")[1].v = DocUsable(TopologyKeys(pools))
        /\ Len(Lines("Total Disks")) = 1 =>
             /\ TallyLinesPrinted = SubSeq(TalliesOf(DocDrives), 1, 4)
             /\ Lines("Total Disks")[1].v = Len(Listed) + Len(Omitted)
             /\ DocTotal(DocDrives) > 0 =>
                  /\ Lines("Raw Capacity")[1].v = DocTotal(DocDrives)
                  /\ Lines("Used Space")[1].v = TalliesOf(DocDrives)[6]

\* C18's case: a failed drive of 100 TB in a set the topology lacks, counted
\* in the cluster summary and absent from the Pool Summary and from the
\* listing of the run, which has ended
C18_OmittedDriveCounted ==
    /\ OmitsDrives /\ pc = "done" /\ exit_code = 0
    /\ Len(Listed) = 2 /\ Len(Omitted) = 1
    /\ Get(Omitted[1], "state", "offline") # "ok"
    /\ Omitted[1].totalspace = 100
    /\ Lines("Total Disks")[1].v = 3
    /\ Lines("Problem Disks")[1].v >= 1
    /\ Lines("Raw Capacity")[1].v = DocTotal(Listed) + 100
    /\ SumOfTotals(Lines("  Disks")) = 2
    /\ Lines("Usable Capacity")[1].v = DocUsable(TopologyKeys(pools))
    /\ Len(Lines("low-space set")) + Len(Lines("set summary")) + Len(TableLines) > 0

\* The file has been read and data bound
Loaded == pc \notin {"args", "load"} /\ data # <<>>

\* What json.load makes of the whole file, and of each of its lines
Whole == file[1].whole

FileLines == file[1].lines

\* The whole file is one object with a minio or an info key
TopHasKey == Whole # <<>> /\ ("minio" \in DOMAIN Whole[1] \/ "info" \in DOMAIN Whole[1])

\* The positions of the lines that are objects with a minio or an info key
CandidateLines == {i \in 1..Len(FileLines) : IsCandidate(FileLines[i])}

\* The object of the first such line
FirstLineObject == FileLines[CHOOSE i \in CandidateLines : \A j \in CandidateLines : i <= j][1]

\* The container is minio.info when the loaded object has a minio key holding
\* info, else its info; a loaded object with neither is turned down
ResolvedInOrder ==
    /\ info_path # <<>> =>
         IF "minio" \in DOMAIN data /\ "info" \in DOMAIN data.minio
         THEN info_path = data.minio.info
         ELSE "info" \in DOMAIN data /\ info_path = data.info
    /\ pc \notin {"args", "load", "resolve"}
       /\ ~("minio" \in DOMAIN data /\ "info" \in DOMAIN data.minio)
       /\ "info" \notin DOMAIN data
       => /\ pc = "done" /\ exit_code = 1 /\ info_path = <<>>
          /\ Lines("error") = <<[k |-> "error", what |-> "could not find servers"]>>

\* C19 as stated: the container is minio.info of the top object when it has a
\* minio key holding info, else its info; the lines of the file are scanned
\* only when the top object has neither a minio nor an info key, and then the
\* first line object with either key is taken, whatever later lines hold.
C19_ScannedOnlyWithoutKeys ==
    Loaded =>
        /\ Whole # <<>>
        /\ IF TopHasKey \/ CandidateLines = {}
           THEN data = Whole[1]
           ELSE data = FirstLineObject
        /\ ResolvedInOrder

\* C19: the container is minio.info of the loaded object when it has a minio
\* key holding info, else its info; the lines of the file are scanned only
\* when the file is not one JSON value or the top object has neither a minio
\* nor an info key, and then the first line object with either key is taken,
\* whatever later lines hold.
C19_ScannedWithoutTopKeys ==
    Loaded =>
        /\ IF TopHasKey
           THEN data = Whole[1]
           ELSE IF CandidateLines # {}
           THEN data = FirstLineObject
           ELSE Whole # <<>> /\ data = Whole[1]
        /\ ResolvedInOrder

\* C19's case: a file that is not one JSON value, whose third line is the
\* first object with either key; its info is the container, and the minio.info
\* of the fourth line is not
C19_LinesOfNdjsonScanned ==
    /\ Loaded
    /\ Whole = <<>>
    /\ CandidateLines = {3, 4}
    /\ data = FileLines[3][1]
    /\ "minio" \in DOMAIN FileLines[4][1]
    /\ info_path = FileLines[3][1].info
    /\ info_path # FileLines[4][1].minio.info
    /\ Len(ParityLines) = 1

\* The drive entries the inventory pass has visited
Visited == SubSeq(DocDrives, 1, cur)

Stateless(drives) == SelectSeq(drives, LAMBDA d : "state" \notin DOMAIN d)

WithState(drives, state) ==
    SelectSeq(drives, LAMBDA d : "state" \in DOMAIN d /\ d.state = state)

\* The records held for a drive entry
HeldFor(d) == InBucket(KeyOfDrive(d), DiskInfo(d))

\* The rows of every table printed that show the drive of a uuid
RowsOf(uuid) ==
    UNION {{TableLines[i].rows[j] : j \in {h \in 1..Len(TableLines[i].rows) :
                                              TableLines[i].rows[h].uuid = uuid}} :
              i \in 1..Len(TableLines)}

\* C20: a drive without state is counted as not ok in the tally of disk
\* states and recorded with state "unknown", so --failed keeps it and the bad
\* count of its pool includes it; after every step of the inventory pass the
\* ok count plus the not-ok count is the total and the scanning count is at
\* most the total.
C20_StatelessDriveNotOk ==
    /\ ok_disks + bad_disks = total_disks
    /\ scanning_disks <= total_disks
    /\ total_disks = cur
    /\ ok_disks = Len(WithState(Visited, "ok"))
    /\ bad_disks = Len(Visited) - Len(WithState(Visited, "ok"))
    /\ bad_disks >= Len(Stateless(Visited))
    /\ \A i \in 1..Len(Stateless(Visited)) :
         /\ DiskInfo(Stateless(Visited)[i]).state = "unknown"
         /\ ~scanning_mode \/ Get(Stateless(Visited)[i], "scanning", FALSE) =>
              HeldFor(Stateless(Visited)[i]) >= 1
         /\ \A row \in RowsOf(Stateless(Visited)[i].uuid) : row.state = "unknown"
    /\ ~scanning_mode /\ ~ExplicitTopology =>
         \A i \in 1..Len(Lines("  Disks")) :
             Lines("  Disks")[i].bad =
                 Len(DocPoolDrives(PoolKeys(pools[i])))
                 - Len(WithState(DocPoolDrives(PoolKeys(pools[i])), "ok"))

\* C20's case: under --failed a drive without state, the only drive that is
\* not ok, is the Problem Disk of the summary, the bad disk of its pool and the
\* row of the table, with state "unknown"
C20_StatelessDriveListedAsFailed ==
    /\ pc = "done" /\ failed_mode /\ ~scanning_mode /\ ~summary_mode
    /\ Len(DocDrives) = 2
    /\ Len(Stateless(DocDrives)) = 1
    /\ Len(WithState(DocDrives, "ok")) = 1
    /\ ok_disks = 1 /\ bad_disks = 1 /\ total_disks = 2
    /\ Lines("Problem Disks")[1].v = 1
    /\ Len(Lines("  Disks")) = 1 /\ Lines("  Disks")[1].bad = 1
    /\ Len(TableLines) = 1 /\ Len(TableLines[1].rows) = 1
    /\ TableLines[1].rows[1].state = "unknown"
    /\ TableLines[1].rows[1].uuid = Stateless(DocDrives)[1].uuid
====
